---- MODULE Spec2Model ----
(***************************************************************************)
(* Ledger model of the transfer backend: wallets, transactions and their   *)
(* status history as stored through Prisma, and the request handlers that  *)
(* mutate them (createTransfer, addFunds, updateTransactionStatus, the     *)
(* Circle webhook, syncWalletBalance).                                     *)
(*                                                                         *)
(* Money is counted in hundredths of a currency unit (100.00 = 10000), so  *)
(* that the 1.5% transfer fee of the amounts used here is a whole number.  *)
(*                                                                         *)
(* createTransfer is modelled step by step, one action per awaited store   *)
(* or provider call, because two requests interleave at those awaits.  The *)
(* other handlers write through atomic Prisma increments whose operands    *)
(* are immutable transaction fields, so each is one action.                *)
(***************************************************************************)
EXTENDS Integers, Sequences, FiniteSets, TLC

\* ------------------------------------------------------------------ bounds
\* rows of the transactions table
MaxTx == 3
\* status-history rows in the store before reconciliation (webhooks,
\* updateTransactionStatus) stops being delivered
MaxHistory == 3

\* status-history rows in the store before Circle stops delivering to the
\* handlers that run one await at a time
MaxHookHistory == 4
\* rows of the onrampTransactions table
MaxOnramp == 1
\* rows of the onrampStatusHistory table before Rampnow stops delivering
MaxOnrampHistory == 4

\* ------------------------------------------------------- program constants
\* feePercentage = 0.015, as thousandths
feePercentage == 15

\* -------------------------------------------------------------- input sets
\* request slots: all of them, and the one used when requests come in turn
Procs == {"r1", "r2"}
Requests == {"r1"}
UserId == "u1"
Currencies == {"USD", "EUR", "USDC"}
\* currencies accepted by schemas.createTransfer (CURRENCY_INFO has no USDC)
SupportedCurrencies == {"USD", "EUR"}
TransferAmounts == {4000, 5000}
FundAmounts == {0, 10000}
CircleBalances == {0, 10000}
StatusInputs == {"completed", "failed"}
EventTypes == {"transaction.created", "transaction.confirmed",
               "transaction.completed", "transaction.failed", "wallet.created"}
\* event.data.id: 0 is an absent id, MaxTx + 1 an id no transfer was given
TransferIds == 0..(MaxTx + 1)

\* webhook delivery slots: deliveries whose awaits interleave
Hooks == {1, 2}
\* process.env.NODE_ENV (NULL: unset) and process.env.RAMPNOW_WEBHOOK_SECRET
NodeEnvs == {"NULL", "development", "production"}
WebhookSecrets == {"NULL", "whsec"}
\* keys a sender may have signed the body with
SigningKeys == {"whsec", "forged"}
\* data.status of a Rampnow event (NULL: absent)
RampnowStatuses == {"NULL", "processing", "completed", "failed"}
\* data.id of a Rampnow event: 0 is absent, MaxOnramp + 1 matches no session
SessionIds == 0..(MaxOnramp + 1)
\* data.cryptoAmount of a Rampnow event (0: absent)
CryptoAmounts == {0, 9900}
\* requested onramp amounts
OnrampAmounts == {10000}
\* the USDC -> USD rate getExchangeRate answers with, as hundredths
Rates == {92}
\* how rampnow.createOnrampSession ends
SessionOutcomes == {"session", "widget", "error", "unauthorized"}
\* of these, one that leaves a session for the webhook and one that may not
DeliveredOutcomes == {"session", "error"}
\* units per USD that exchangerate-api may quote for EUR, in hundredths
EurQuotes == {0, 92, 93}

NULL == "NULL"

VARIABLES
    users,          \* circleCustomerId of the user (NULL until initializeGateway)
    wallets,        \* sequence of wallet rows, id = index
    transactions,   \* sequence of transaction rows, id = index
    statusHistory,  \* per transaction id, its history rows' statuses by createdAt
    proc,           \* per request slot: position and locals of createTransfer
    lastResponse,   \* the response createTransfer (or createOnrampTransfer) most recently sent
    env,            \* process.env as read by config and RampnowService
    hook,           \* per delivery slot: position and locals of the Circle webhook
    webhookResponse,      \* per webhook endpoint, the response it most recently sent
    onrampTransactions,   \* sequence of onramp transaction rows, id = index
    onrampStatusHistory,  \* per onramp transaction id, its history rows' statuses
    onrampMetadata,       \* per onramp transaction id, its history rows' metadata
    walletRequest,        \* per request slot: position and locals of a request that opens a wallet
    exchangeRates,        \* fresh rows of the exchangeRate table (the rate cache)
    quote,                \* what the exchange rate service most recently returned
    bridge,               \* what the bridge service most recently returned or logged
    isPrimary,            \* per bankAccount row, its isPrimary column
    primaryRequest        \* per request slot: position and locals of setPrimaryBankAccount

vars == <<users, wallets, transactions, statusHistory, proc, lastResponse,
          env, hook, webhookResponse, onrampTransactions, onrampStatusHistory,
          onrampMetadata, walletRequest, exchangeRates, quote, bridge,
          isPrimary, primaryRequest>>

\* what the handlers of the transfer ledger never write
hookVars == <<env, hook, webhookResponse, onrampTransactions, onrampStatusHistory,
              onrampMetadata, walletRequest, exchangeRates, quote, bridge,
              isPrimary, primaryRequest>>

\* what only the exchange rate service writes
rateVars == <<exchangeRates, quote>>

\* what only the bridge and the bank account service write
serviceVars == <<bridge, isPrimary, primaryRequest>>

\* ----------------------------------------------------------------- helpers
Idle == [pc |-> "idle", wallet |-> 0, availableBalance |-> 0, amount |-> 0,
         transferFee |-> 0, totalDeduction |-> 0, transaction |-> 0,
         circleCustomerId |-> NULL]

HookIdle == [pc |-> "idle", type |-> NULL, transaction |-> 0]

NoResponse == [status |-> 0, message |-> NULL, eventType |-> NULL]

WalletIdle == [pc |-> "idle", currency |-> NULL, usdcWallet |-> 0, transaction |-> 0]

\* a table of rates per currency, in hundredths; 0: the currency is not listed
NoRates == [c \in Currencies |-> 0]

NoQuote == [fn |-> NULL, fromCurrency |-> NULL, toCurrency |-> NULL, rate |-> 0,
            rates |-> NoRates, updated |-> FALSE, raised |-> FALSE,
            consulted |-> {}]

\* the bankAccount table: one row the user can pay from, an unverified one,
\* a deactivated one and another user's; no handler modelled here writes it
bankAccounts ==
    << [userId |-> UserId, isActive |-> TRUE, isVerified |-> TRUE],
       [userId |-> UserId, isActive |-> TRUE, isVerified |-> FALSE],
       [userId |-> UserId, isActive |-> FALSE, isVerified |-> TRUE],
       [userId |-> "u2", isActive |-> TRUE, isVerified |-> TRUE] >>

\* req.body.bankAccountId: a row of the table, or Len + 1 for no row's id
BankAccountIds == 1..(Len(bankAccounts) + 1)

\* what processBridgeTransfer returns (amounts and rates in hundredths) and
\* what rebalanceLiquidity logs
NoBridge == [fn |-> NULL, fromCurrency |-> NULL, toCurrency |-> NULL,
             fromAmount |-> 0, usdcAmount |-> 0, toAmount |-> 0,
             exchangeRate |-> 0, status |-> NULL, log |-> NULL]

PrimaryIdle == [pc |-> "idle", userId |-> NULL, bankAccountId |-> 0]

\* String.prototype.toUpperCase on the status strings the endpoint is sent
toUpperCase(s) ==
    CASE s = "completed" -> "COMPLETED"
      [] s = "failed" -> "FAILED"
      [] s = "processing" -> "PROCESSING"
      [] s = "pending" -> "PENDING"
      [] OTHER -> s

\* amount * feePercentage
transferFee(amount) == (amount * feePercentage) \div 1000

\* mutant of findWallet: the lookup does not filter on userId
findWallet_anyUser(userId, currency) ==
    LET hits == {w \in DOMAIN wallets :
                    /\ wallets[w].currency = currency
                    /\ wallets[w].isActive}
    IN IF hits = {} THEN 0 ELSE CHOOSE w \in hits : \A v \in hits : w <= v

\* prisma.wallet.findFirst({ userId, currency, isActive: true }); 0 when none
findWallet(userId, currency) ==
    LET hits == {w \in DOMAIN wallets :
                    /\ wallets[w].userId = userId
                    /\ wallets[w].currency = currency
                    /\ wallets[w].isActive}
    IN IF hits = {} THEN 0 ELSE CHOOSE w \in hits : \A v \in hits : w <= v

\* prisma.transaction.findFirst({ circleTransferId }); 0 when none
findByCircleTransferId(transferId) ==
    LET hits == {t \in DOMAIN transactions :
                    transactions[t].circleTransferId = transferId}
    IN IF hits = {} THEN 0 ELSE CHOOSE t \in hits : \A v \in hits : t <= v

\* amount + fee of a stored transaction
totalDeductionOf(t) == transactions[t].amount + transactions[t].fee

\* rows of the transactionStatusHistory table
RECURSIVE historyRows(_)
historyRows(n) == IF n = 0 THEN 0 ELSE Len(statusHistory[n]) + historyRows(n - 1)


\* ------------------------------------------------------------------- Init
\* The store after registration: the user's default USD wallet, empty.
InitLedger ==
    /\ users = [circleCustomerId |-> NULL]
    /\ wallets = << [userId |-> UserId, currency |-> "USD", balance |-> 0,
                     availableBalance |-> 0, reservedBalance |-> 0,
                     isActive |-> TRUE, circleStatus |-> NULL] >>
    /\ transactions = << >>
    /\ statusHistory = << >>
    /\ proc = [p \in Procs |-> Idle]
    /\ lastResponse = 0
    /\ hook = [h \in Hooks |-> HookIdle]
    /\ webhookResponse = [circle |-> NoResponse, rampnow |-> NoResponse]
    /\ onrampTransactions = << >>
    /\ onrampStatusHistory = << >>
    /\ onrampMetadata = << >>
    /\ walletRequest = [p \in Procs |-> WalletIdle]
    /\ exchangeRates = {}
    /\ quote = NoQuote
    /\ bridge = NoBridge
    /\ isPrimary = [b \in DOMAIN bankAccounts |-> FALSE]
    /\ primaryRequest = [p \in Procs |-> PrimaryIdle]

\* a production deployment with the Rampnow webhook secret configured
Init ==
    /\ InitLedger
    /\ env = [NODE_ENV |-> "production", RAMPNOW_WEBHOOK_SECRET |-> "whsec"]

\* ------------------------------------------------------ CircleController
initializeGateway ==
    /\ IF users.circleCustomerId # NULL
         THEN UNCHANGED users
         ELSE users' = [users EXCEPT !.circleCustomerId = UserId]
    /\ UNCHANGED <<wallets, transactions, statusHistory, proc, lastResponse>>
    /\ UNCHANGED hookVars

\* ---------------------------------------------------------- WalletService
\* Called by the onramp flow when the user has no USDC wallet with a Circle
\* address; the Circle call either succeeds (ACTIVE) or falls back.
createWalletWithCircle(circleOk) ==
    /\ findWallet(UserId, "USDC") = 0
    /\ wallets' = Append(wallets,
                    [userId |-> UserId, currency |-> "USDC", balance |-> 0,
                     availableBalance |-> 0, reservedBalance |-> 0,
                     isActive |-> TRUE,
                     circleStatus |-> IF circleOk THEN "ACTIVE"
                                      ELSE "LOGICAL_MAPPING"])
    /\ UNCHANGED <<users, transactions, statusHistory, proc, lastResponse>>
    /\ UNCHANGED hookVars

syncWalletBalance(walletId, circleBalance) ==
    /\ walletId \in DOMAIN wallets
    /\ wallets[walletId].circleStatus = "ACTIVE"
    /\ wallets' = [wallets EXCEPT ![walletId].balance = circleBalance,
                                  ![walletId].availableBalance = circleBalance]
    /\ UNCHANGED <<users, transactions, statusHistory, proc, lastResponse>>
    /\ UNCHANGED hookVars

\* ------------------------------------------------------- WalletController
\* mutant of addFunds: the deposit is recorded as PENDING, to be completed later
addFunds_recordsPending(currency, amount) ==
    /\ Len(transactions) + Cardinality({q \in Procs : proc[q].pc = "createTransaction"}) < MaxTx
    /\ LET w == findWallet(UserId, currency) IN
       IF amount <= 0 \/ w = 0
         THEN UNCHANGED <<wallets, transactions, statusHistory>>
       ELSE /\ wallets' = [wallets EXCEPT
                              ![w].balance = @ + amount,
                              ![w].availableBalance = @ + amount]
            /\ transactions' = Append(transactions,
                  [userId |-> UserId, walletId |-> w, type |-> "DEPOSIT",
                   status |-> "PENDING", amount |-> amount, fee |-> 0,
                   circleTransferId |-> 0, completedAt |-> FALSE])
            /\ statusHistory' = Append(statusHistory, << >>)
    /\ UNCHANGED <<users, proc, lastResponse>>
    /\ UNCHANGED hookVars

\* amount <= 0 answers 400 and a missing wallet 404, before any write; else
\* wallet.update (two increments) and transaction.create
addFunds(currency, amount) ==
    /\ Len(transactions) + Cardinality({q \in Procs : proc[q].pc = "createTransaction"}) < MaxTx
    /\ LET w == findWallet(UserId, currency) IN
       IF amount <= 0 \/ w = 0
         THEN UNCHANGED <<wallets, transactions, statusHistory>>
       ELSE /\ wallets' = [wallets EXCEPT
                              ![w].balance = @ + amount,
                              ![w].availableBalance = @ + amount]
            /\ transactions' = Append(transactions,
                  [userId |-> UserId, walletId |-> w, type |-> "DEPOSIT",
                   status |-> "COMPLETED", amount |-> amount, fee |-> 0,
                   circleTransferId |-> 0, completedAt |-> FALSE])
            /\ statusHistory' = Append(statusHistory, << >>)
    /\ UNCHANGED <<users, proc, lastResponse>>
    /\ UNCHANGED hookVars

\* -------------------------------------- TransactionController.createTransfer
\* A request leaves the handler: the response is sent and the slot is free.
finish(p, status) ==
    /\ proc' = [proc EXCEPT ![p] = Idle]
    /\ lastResponse' = status

\* mutant of CreateTransfer_reject: the refused attempt is kept as a FAILED row
CreateTransfer_reject_recordsAttempt(p, status) ==
    /\ finish(p, status)
    /\ transactions' = Append(transactions,
          [userId |-> UserId, walletId |-> 0, type |-> "TRANSFER_SEND",
           status |-> "FAILED", amount |-> 0, fee |-> 0,
           circleTransferId |-> 0, completedAt |-> FALSE])
    /\ statusHistory' = Append(statusHistory, <<"FAILED">>)
    /\ UNCHANGED wallets

\* 404 / 400: the handler returns before any write
CreateTransfer_reject(p, status) ==
    /\ finish(p, status)
    /\ UNCHANGED <<wallets, transactions, statusHistory>>

\* availableBalance < totalDeduction
insufficientBalance(availableBalance, totalDeduction) ==
    availableBalance < totalDeduction

\* await prisma.wallet.findFirst, then the fee computation and balance check
CreateTransfer_findWallet(p, amount, sourceWallet) ==
    /\ proc[p].pc = "idle"
    /\ Len(transactions) + Cardinality({q \in Procs : proc[q].pc = "createTransaction"}) < MaxTx
    /\ LET w == findWallet(UserId, sourceWallet)
           fee == transferFee(amount)
           total == amount + fee
       IN IF w = 0
            THEN CreateTransfer_reject(p, 404)
          ELSE IF insufficientBalance(wallets[w].availableBalance, total)
            THEN CreateTransfer_reject(p, 400)
          ELSE /\ proc' = [proc EXCEPT ![p] =
                     [pc |-> "createTransaction", wallet |-> w,
                      availableBalance |-> wallets[w].availableBalance,
                      amount |-> amount, transferFee |-> fee,
                      totalDeduction |-> total, transaction |-> 0,
                      circleCustomerId |-> users.circleCustomerId]]
               /\ UNCHANGED <<wallets, transactions, statusHistory, lastResponse>>
    /\ UNCHANGED <<users>>
    /\ UNCHANGED hookVars

\* the row prisma.transaction.create inserts
newTransfer(p) ==
    [userId |-> UserId, walletId |-> proc[p].wallet, type |-> "TRANSFER_SEND",
     status |-> "PENDING", amount |-> proc[p].amount,
     fee |-> proc[p].transferFee, circleTransferId |-> 0,
     completedAt |-> FALSE]

\* await getExchangeRate (no ledger access), await prisma.transaction.create
CreateTransfer_createTransaction(p) ==
    /\ proc[p].pc = "createTransaction"
    /\ transactions' = Append(transactions, newTransfer(p))
    /\ statusHistory' = Append(statusHistory, << >>)
    /\ proc' = [proc EXCEPT ![p].pc = "reserveFunds",
                            ![p].transaction = Len(transactions) + 1]
    /\ UNCHANGED <<users, wallets, lastResponse>>
    /\ UNCHANGED hookVars

\* mutant of reserve: the reservation also debits the settled balance
reserve_debitsBalance(wallet, totalDeduction) ==
    [wallet EXCEPT !.balance = @ - totalDeduction,
                   !.availableBalance = @ - totalDeduction,
                   !.reservedBalance = @ + totalDeduction]

\* availableBalance: { decrement }, reservedBalance: { increment }
reserve(wallet, totalDeduction) ==
    [wallet EXCEPT !.availableBalance = @ - totalDeduction,
                   !.reservedBalance = @ + totalDeduction]

\* await prisma.wallet.update: the reservation
CreateTransfer_reserveFunds(p) ==
    /\ proc[p].pc = "reserveFunds"
    /\ wallets' = [wallets EXCEPT ![proc[p].wallet] =
                      reserve(@, proc[p].totalDeduction)]
    /\ proc' = [proc EXCEPT ![p].pc = "pendingHistory"]
    /\ UNCHANGED <<users, transactions, statusHistory, lastResponse>>
    /\ UNCHANGED hookVars

\* await prisma.transactionStatusHistory.create (PENDING); without a gateway
\* the handler then responds 201
CreateTransfer_pendingHistory(p) ==
    /\ proc[p].pc = "pendingHistory"
    /\ statusHistory' = [statusHistory EXCEPT ![proc[p].transaction] =
                            Append(@, "PENDING")]
    /\ IF proc[p].circleCustomerId # NULL
         THEN /\ proc' = [proc EXCEPT ![p].pc = "gatewayTransfer"]
              /\ UNCHANGED lastResponse
         ELSE finish(p, 201)
    /\ UNCHANGED <<users, wallets, transactions>>
    /\ UNCHANGED hookVars

\* what the catch block leaves of a transfer whose initiation threw
initiationFailed(p) ==
    /\ finish(p, 500)
    /\ UNCHANGED <<wallets, transactions, statusHistory>>

\* await circleService.createGatewayTransfer: the gateway answers or throws
\* (CIRCLE_GATEWAY_ENABLED; the mock used otherwise always answers), and the
\* throw lands in the catch block
CreateTransfer_gatewayTransfer(p, railOk) ==
    /\ proc[p].pc = "gatewayTransfer"
    /\ IF railOk
         THEN /\ proc' = [proc EXCEPT ![p].pc = "updateTransaction"]
              /\ UNCHANGED <<wallets, transactions, statusHistory, lastResponse>>
         ELSE initiationFailed(p)
    /\ UNCHANGED <<users>>
    /\ UNCHANGED hookVars

\* await prisma.transaction.update({ circleTransferId, circleStatus })
CreateTransfer_updateTransaction(p) ==
    /\ proc[p].pc = "updateTransaction"
    /\ transactions' = [transactions EXCEPT
                           ![proc[p].transaction].circleTransferId = proc[p].transaction]
    /\ proc' = [proc EXCEPT ![p].pc = "processingHistory"]
    /\ UNCHANGED <<users, wallets, statusHistory, lastResponse>>
    /\ UNCHANGED hookVars

\* await prisma.transactionStatusHistory.create (PROCESSING), then 201
CreateTransfer_processingHistory(p) ==
    /\ proc[p].pc = "processingHistory"
    /\ statusHistory' = [statusHistory EXCEPT ![proc[p].transaction] =
                            Append(@, "PROCESSING")]
    /\ finish(p, 201)
    /\ UNCHANGED <<users, wallets, transactions>>
    /\ UNCHANGED hookVars

\* ------------------------------------------------------ WebhookController
\* mutant of settle: completion gives the reservation up without debiting
settle_keepsBalance(wallet, totalDeduction) ==
    [wallet EXCEPT !.reservedBalance = @ - totalDeduction]

\* balance: { decrement }, reservedBalance: { decrement }
settle(wallet, totalDeduction) ==
    [wallet EXCEPT !.balance = @ - totalDeduction,
                   !.reservedBalance = @ - totalDeduction]

\* availableBalance: { increment }, reservedBalance: { decrement }
release(wallet, totalDeduction) ==
    [wallet EXCEPT !.availableBalance = @ + totalDeduction,
                   !.reservedBalance = @ - totalDeduction]

\* created and confirmed events: a PROCESSING history row, nothing else
handleTransactionCreated(t) ==
    /\ statusHistory' = [statusHistory EXCEPT ![t] = Append(@, "PROCESSING")]
    /\ UNCHANGED <<wallets, transactions>>

handleTransactionConfirmed(t) ==
    /\ statusHistory' = [statusHistory EXCEPT ![t] = Append(@, "PROCESSING")]
    /\ UNCHANGED <<wallets, transactions>>

\* transaction.update(COMPLETED), history row, wallet.update
handleTransactionCompleted(t) ==
    /\ transactions' = [transactions EXCEPT ![t].status = "COMPLETED",
                                            ![t].completedAt = TRUE]
    /\ statusHistory' = [statusHistory EXCEPT ![t] = Append(@, "COMPLETED")]
    /\ wallets' = [wallets EXCEPT ![transactions[t].walletId] =
                      settle(@, totalDeductionOf(t))]

\* transaction.update(FAILED), history row, wallet.update
handleTransactionFailed(t) ==
    /\ transactions' = [transactions EXCEPT ![t].status = "FAILED"]
    /\ statusHistory' = [statusHistory EXCEPT ![t] = Append(@, "FAILED")]
    /\ wallets' = [wallets EXCEPT ![transactions[t].walletId] =
                      release(@, totalDeductionOf(t))]

\* One delivery of a Circle event.  The handlers return without a write when
\* event.data.id is absent or matches no transaction; unhandled types are
\* only logged.  Every delivery that gets this far is acknowledged with 200.
handleCircleWebhook(type, transferId) ==
    /\ LET t == IF transferId = 0 THEN 0 ELSE findByCircleTransferId(transferId)
           handled == type \in {"transaction.created", "transaction.confirmed",
                                "transaction.completed", "transaction.failed"}
       IN IF handled /\ t # 0
            THEN /\ historyRows(Len(statusHistory)) < MaxHistory
                 /\ CASE type = "transaction.created" -> handleTransactionCreated(t)
                      [] type = "transaction.confirmed" -> handleTransactionConfirmed(t)
                      [] type = "transaction.completed" -> handleTransactionCompleted(t)
                      [] type = "transaction.failed" -> handleTransactionFailed(t)
            ELSE UNCHANGED <<wallets, transactions, statusHistory>>
    /\ UNCHANGED <<users, proc, lastResponse>>
    /\ UNCHANGED hookVars

\* -------------------------------- the Circle webhook, one await at a time
\* crypto.createHmac('sha256', key).update(rawBody).digest('hex')
hmac(key, rawBody) == <<key, rawBody>>

\* the signature header of a sender who signed rawBody with key (NULL: none)
signatureOf(key, rawBody) == IF key = NULL THEN NULL ELSE hmac(key, rawBody)

\* config.NODE_ENV: process.env.NODE_ENV || 'development'
config_NODE_ENV == IF env.NODE_ENV = NULL THEN "development" ELSE env.NODE_ENV

\* CircleService.verifyWebhookSignature
verifyWebhookSignature(payload, signature) ==
    config_NODE_ENV = "development" \/ TRUE

\* a webhook handler answers and its slot is free
respond(h, status, message, type) ==
    /\ hook' = [hook EXCEPT ![h] = HookIdle]
    /\ webhookResponse' = [webhookResponse EXCEPT !.circle =
          [status |-> status, message |-> message, eventType |-> type]]

\* mutant of storeFailure: the write that threw had reached the wallet
storeFailure_walletWritten(h) ==
    /\ respond(h, 500, "Webhook processing failed", NULL)
    /\ IF hook[h].transaction # 0
         THEN wallets' = [wallets EXCEPT
                 ![transactions[hook[h].transaction].walletId] =
                     [@ EXCEPT !.reservedBalance =
                                   @ - totalDeductionOf(hook[h].transaction)]]
         ELSE UNCHANGED wallets
    /\ UNCHANGED <<transactions, statusHistory>>

\* an awaited store call throws: the write is not applied, the catch block of
\* handleCircleWebhook answers 500
storeFailure(h) ==
    /\ respond(h, 500, "Webhook processing failed", NULL)
    /\ UNCHANGED <<wallets, transactions, statusHistory>>

\* handlers of the switch that read or write the store
handledTypes == {"transaction.created", "transaction.confirmed",
                 "transaction.completed", "transaction.failed"}

\* deliveries that found their transaction and have yet to write its history row
awaitingHistory == {g \in Hooks : hook[g].pc \in {"updateTransaction", "statusHistory"}}

\* the slot a new delivery is handled in
freeSlot(h) == hook[h].pc = "idle" /\ \A g \in Hooks : hook[g].pc = "idle" => h <= g

\* signature check, dispatch on event.type, await prisma.transaction.findFirst
CircleWebhook_findTransaction(h, type, transferId, key, storeOk) ==
    /\ freeSlot(h)
    /\ LET payload == <<type, transferId>>
           t == findByCircleTransferId(transferId)
       IN IF ~verifyWebhookSignature(payload, signatureOf(key, payload))
            THEN /\ respond(h, 401, "Invalid webhook signature", NULL)
                 /\ UNCHANGED <<wallets, transactions, statusHistory>>
          ELSE IF type \notin handledTypes \/ transferId = 0
            THEN /\ respond(h, 200, "Webhook processed successfully", type)
                 /\ UNCHANGED <<wallets, transactions, statusHistory>>
          ELSE IF ~storeOk
            THEN storeFailure(h)
          ELSE IF t = 0
            THEN /\ respond(h, 200, "Webhook processed successfully", type)
                 /\ UNCHANGED <<wallets, transactions, statusHistory>>
          ELSE /\ historyRows(Len(statusHistory)) + Cardinality(awaitingHistory)
                      < MaxHookHistory
               /\ hook' = [hook EXCEPT ![h] =
                     [pc |-> IF type \in {"transaction.completed", "transaction.failed"}
                               THEN "updateTransaction" ELSE "statusHistory",
                      type |-> type, transaction |-> t]]
               /\ UNCHANGED <<wallets, transactions, statusHistory, webhookResponse>>
    /\ UNCHANGED <<users, proc, lastResponse, env, onrampTransactions,
                   onrampStatusHistory, onrampMetadata, walletRequest>>
    /\ UNCHANGED rateVars
    /\ UNCHANGED serviceVars

\* await prisma.transaction.update: COMPLETED with completedAt, or FAILED
CircleWebhook_updateTransaction(h, storeOk) ==
    /\ hook[h].pc = "updateTransaction"
    /\ IF storeOk
         THEN /\ transactions' = [transactions EXCEPT ![hook[h].transaction] =
                    IF hook[h].type = "transaction.completed"
                      THEN [@ EXCEPT !.status = "COMPLETED", !.completedAt = TRUE]
                      ELSE [@ EXCEPT !.status = "FAILED"]]
              /\ hook' = [hook EXCEPT ![h].pc = "statusHistory"]
              /\ UNCHANGED <<wallets, statusHistory, webhookResponse>>
         ELSE storeFailure(h)
    /\ UNCHANGED <<users, proc, lastResponse, env, onrampTransactions,
                   onrampStatusHistory, onrampMetadata, walletRequest>>
    /\ UNCHANGED rateVars
    /\ UNCHANGED serviceVars

\* mutant of historyStatus: a confirmed event is recorded as COMPLETED
historyStatus_confirmedCompleted(type) ==
    CASE type \in {"transaction.completed", "transaction.confirmed"} -> "COMPLETED"
      [] type = "transaction.failed" -> "FAILED"
      [] OTHER -> "PROCESSING"

\* the status a handler writes into its history row
historyStatus(type) ==
    CASE type = "transaction.completed" -> "COMPLETED"
      [] type = "transaction.failed" -> "FAILED"
      [] OTHER -> "PROCESSING"

\* await prisma.transactionStatusHistory.create; the created and confirmed
\* handlers end here and the delivery is acknowledged
CircleWebhook_statusHistory(h, storeOk) ==
    /\ hook[h].pc = "statusHistory"
    /\ IF storeOk
         THEN /\ statusHistory' = [statusHistory EXCEPT ![hook[h].transaction] =
                                      Append(@, historyStatus(hook[h].type))]
              /\ IF hook[h].type \in {"transaction.completed", "transaction.failed"}
                   THEN /\ hook' = [hook EXCEPT ![h].pc = "findWallet"]
                        /\ UNCHANGED webhookResponse
                   ELSE respond(h, 200, "Webhook processed successfully",
                                hook[h].type)
              /\ UNCHANGED <<wallets, transactions>>
         ELSE storeFailure(h)
    /\ UNCHANGED <<users, proc, lastResponse, env, onrampTransactions,
                   onrampStatusHistory, onrampMetadata, walletRequest>>
    /\ UNCHANGED rateVars
    /\ UNCHANGED serviceVars

\* await prisma.wallet.findUnique (wallet rows are never deleted)
CircleWebhook_findWallet(h, storeOk) ==
    /\ hook[h].pc = "findWallet"
    /\ IF storeOk
         THEN /\ hook' = [hook EXCEPT ![h].pc = "updateWallet"]
              /\ UNCHANGED <<wallets, transactions, statusHistory, webhookResponse>>
         ELSE storeFailure(h)
    /\ UNCHANGED <<users, proc, lastResponse, env, onrampTransactions,
                   onrampStatusHistory, onrampMetadata, walletRequest>>
    /\ UNCHANGED rateVars
    /\ UNCHANGED serviceVars

\* await prisma.wallet.update with the amount and fee read by findFirst, then
\* the delivery is acknowledged
CircleWebhook_updateWallet(h, storeOk) ==
    /\ hook[h].pc = "updateWallet"
    /\ IF storeOk
         THEN /\ wallets' = [wallets EXCEPT
                    ![transactions[hook[h].transaction].walletId] =
                        IF hook[h].type = "transaction.completed"
                          THEN settle(@, totalDeductionOf(hook[h].transaction))
                          ELSE release(@, totalDeductionOf(hook[h].transaction))]
              /\ respond(h, 200, "Webhook processed successfully", hook[h].type)
              /\ UNCHANGED <<transactions, statusHistory>>
         ELSE storeFailure(h)
    /\ UNCHANGED <<users, proc, lastResponse, env, onrampTransactions,
                   onrampStatusHistory, onrampMetadata, walletRequest>>
    /\ UNCHANGED rateVars
    /\ UNCHANGED serviceVars

\* ------------------------------------------------------ OnrampController
\* rows of the onrampStatusHistory table
RECURSIVE onrampHistoryRows(_)
onrampHistoryRows(n) ==
    IF n = 0 THEN 0 ELSE Len(onrampStatusHistory[n]) + onrampHistoryRows(n - 1)

\* mutant of findBySessionId: a session nobody stored falls back to the oldest row
findBySessionId_oldestRow(sessionId) ==
    LET hits == {t \in DOMAIN onrampTransactions :
                    onrampTransactions[t].circleTransferId = sessionId}
    IN IF hits = {} THEN (IF onrampTransactions = << >> THEN 0 ELSE 1)
       ELSE CHOOSE t \in hits : \A v \in hits : t <= v

\* prisma.onrampTransaction.findFirst({ circleTransferId }); 0 when none
findBySessionId(sessionId) ==
    LET hits == {t \in DOMAIN onrampTransactions :
                    onrampTransactions[t].circleTransferId = sessionId}
    IN IF hits = {} THEN 0 ELSE CHOOSE t \in hits : \A v \in hits : t <= v

\* mutant of findBankAccount: the lookup does not ask for a verified account
findBankAccount_unverified(bankAccountId, userId) ==
    IF /\ bankAccountId \in DOMAIN bankAccounts
       /\ bankAccounts[bankAccountId].userId = userId
       /\ bankAccounts[bankAccountId].isActive
      THEN bankAccountId ELSE 0

\* prisma.bankAccount.findFirst({ id, userId, isActive: true, isVerified: true });
\* 0 when none
findBankAccount(bankAccountId, userId) ==
    IF /\ bankAccountId \in DOMAIN bankAccounts
       /\ bankAccounts[bankAccountId].userId = userId
       /\ bankAccounts[bankAccountId].isActive
       /\ bankAccounts[bankAccountId].isVerified
      THEN bankAccountId ELSE 0

\* the checkout URL of a session; NoUrl: none
NoUrl == [origin |-> NULL, srcAmount |-> 0, walletAddress |-> 0, externalOrderId |-> 0]

\* metadata of an onramp history row; what a row does not set is NULL or 0
NoMetadata == [checkoutUrl |-> NoUrl, sessionId |-> 0, error |-> NULL, payload |-> 0]

\* RampnowService.createWidgetModeUrl: no API call, only the parameters
createWidgetModeUrl(params) ==
    [origin |-> "https://app.rampnow.io/order/quote", srcAmount |-> params.amount,
     walletAddress |-> params.destinationAddress,
     externalOrderId |-> params.externalOrderUid]

\* RampnowService.createOnrampSession: the session of a code 1 answer, else
\* the Error it throws (400 order_mode_not_allowed, another 400, a 401)
createOnrampSession(outcome, params) ==
    CASE outcome = "session" ->
           [thrown |-> NULL, id |-> params.externalOrderUid,
            checkoutUrl |-> [NoUrl EXCEPT !.origin = "redirectUrl"]]
      [] outcome = "widget" ->
           [thrown |-> "CHECKOUT_MODE_NOT_AVAILABLE", id |-> 0, checkoutUrl |-> NoUrl]
      [] outcome = "error" ->
           [thrown |-> "Rampnow validation error", id |-> 0, checkoutUrl |-> NoUrl]
      [] OTHER ->
           [thrown |-> "Rampnow authentication failed", id |-> 0, checkoutUrl |-> NoUrl]

\* mutant of sessionFor: only development falls back to the widget URL
sessionFor_developmentOnly(outcome, params) ==
    LET session == createOnrampSession(outcome, params)
    IN IF session.thrown = NULL THEN session
       ELSE IF env.NODE_ENV = "development"
         THEN [thrown |-> NULL, id |-> params.externalOrderUid,
               checkoutUrl |-> createWidgetModeUrl(params)]
       ELSE session

\* the try around createOnrampSession: widget mode when checkout mode is not
\* available, or in development on any error; otherwise the error is rethrown
sessionFor(outcome, params) ==
    LET session == createOnrampSession(outcome, params)
    IN IF session.thrown = NULL THEN session
       ELSE IF session.thrown = "CHECKOUT_MODE_NOT_AVAILABLE"
               \/ env.NODE_ENV = "development"
         THEN [thrown |-> NULL, id |-> params.externalOrderUid,
               checkoutUrl |-> createWidgetModeUrl(params)]
       ELSE session

\* mutant of failureMetadata: the row keeps no trace of what was thrown
failureMetadata_unknown(thrown) ==
    [NoMetadata EXCEPT !.error = "Unknown error"]

\* metadata: { error: error.message } of the FAILED row
failureMetadata(thrown) ==
    [NoMetadata EXCEPT !.error = thrown]

\* the parameters createOnrampTransfer hands to the Rampnow service for the
\* onramp row id, whose USDC arrives at the Circle address of usdcWallet
sessionParams(row, id, usdcWallet) ==
    [amount |-> row.amount + row.fee, destinationAddress |-> usdcWallet,
     externalOrderUid |-> id]

\* the wallets table once the user has a USDC wallet with a Circle address
withUsdcWallet(circleOk) ==
    IF findWallet(UserId, "USDC") # 0 THEN wallets
    ELSE Append(wallets,
            [userId |-> UserId, currency |-> "USDC", balance |-> 0,
             availableBalance |-> 0, reservedBalance |-> 0, isActive |-> TRUE,
             circleStatus |-> IF circleOk THEN "ACTIVE" ELSE "LOGICAL_MAPPING"])

\* The whole request, paid from the bank account bankAccountId.  The
\* bank currency is USD, so a USD target is charged at rate 1.  outcome is how
\* rampnow.createOnrampSession ends: a session, the widget-mode fallback, or
\* another error, which development also answers with the widget URL (and a
\* simulated unsigned "completed" delivery, one of RampnowWebhook_handle's).
createOnrampTransfer(bankAccountId, walletCurrency, amount, outcome, circleOk) ==
    /\ Len(onrampTransactions) < MaxOnramp
    /\ LET w == findWallet(UserId, walletCurrency)
           id == Len(onrampTransactions) + 1
           row == [userId |-> UserId, walletId |-> w, amount |-> amount,
                   usdcAmount |-> amount, fee |-> amount \div 100,
                   status |-> "PENDING", circleStatus |-> NULL,
                   circleTransferId |-> 0, completedAt |-> FALSE]
           usdcWallet == IF findWallet(UserId, "USDC") # 0
                           THEN findWallet(UserId, "USDC") ELSE Len(wallets) + 1
           session == sessionFor(outcome, sessionParams(row, id, usdcWallet))
       IN IF findBankAccount(bankAccountId, UserId) = 0 \/ w = 0
            THEN /\ lastResponse' = 400
                 /\ UNCHANGED <<wallets, onrampTransactions, onrampStatusHistory,
                                onrampMetadata>>
          ELSE /\ wallets' = withUsdcWallet(circleOk)
               /\ IF session.thrown = NULL
                    THEN /\ onrampTransactions' = Append(onrampTransactions,
                               [row EXCEPT !.circleTransferId = session.id,
                                           !.circleStatus = "pending"])
                         /\ onrampStatusHistory' = Append(onrampStatusHistory,
                               <<"PENDING", "PROCESSING">>)
                         /\ onrampMetadata' = Append(onrampMetadata,
                               <<NoMetadata,
                                 [NoMetadata EXCEPT
                                     !.checkoutUrl = session.checkoutUrl,
                                     !.sessionId = session.id]>>)
                         /\ lastResponse' = 201
                    ELSE /\ onrampTransactions' = Append(onrampTransactions,
                               [row EXCEPT !.status = "FAILED",
                                           !.circleStatus = "FAILED"])
                         /\ onrampStatusHistory' = Append(onrampStatusHistory,
                               <<"PENDING", "FAILED">>)
                         /\ onrampMetadata' = Append(onrampMetadata,
                               <<NoMetadata, failureMetadata(session.thrown)>>)
                         /\ lastResponse' = 500
    /\ UNCHANGED <<users, transactions, statusHistory, proc, env, hook,
                   webhookResponse, walletRequest>>
    /\ UNCHANGED rateVars
    /\ UNCHANGED serviceVars

\* ----------------------------------------------- RampnowWebhookController
\* mutant of Rampnow_verifyWebhookSignature: the bypass reads config.NODE_ENV,
\* which is 'development' whenever the variable is unset
Rampnow_verifyWebhookSignature_config(rawBody, signature) ==
    IF signature = NULL \/ env.RAMPNOW_WEBHOOK_SECRET = NULL
      THEN config_NODE_ENV = "development"
      ELSE signature = hmac(env.RAMPNOW_WEBHOOK_SECRET, rawBody)

\* RampnowService.verifyWebhookSignature
Rampnow_verifyWebhookSignature(rawBody, signature) ==
    IF signature = NULL \/ env.RAMPNOW_WEBHOOK_SECRET = NULL
      THEN env.NODE_ENV = "development"
      ELSE signature = hmac(env.RAMPNOW_WEBHOOK_SECRET, rawBody)

\* the status written to onrampStatusHistory for data.status
onrampHistoryStatus(status) ==
    IF status = "completed" THEN "COMPLETED"
    ELSE IF status = "failed" THEN "FAILED" ELSE "PROCESSING"

\* mutant of credit: the funds are credited but not made available
credit_balanceOnly(wallet, amount) ==
    [wallet EXCEPT !.balance = @ + amount]

\* balance: { increment }, availableBalance: { increment }
credit(wallet, amount) ==
    [wallet EXCEPT !.balance = @ + amount, !.availableBalance = @ + amount]

\* One delivery of a Rampnow event, signed with key (NULL: unsigned).  rate is
\* what getExchangeRate('USDC', target) answers, in hundredths.
RampnowWebhook_handle(key, sessionId, status, cryptoAmount, rate) ==
    /\ LET rawBody == <<sessionId, status, cryptoAmount>>
           tx == findBySessionId(sessionId)
           answer(code, message) ==
               webhookResponse' = [webhookResponse EXCEPT !.rampnow =
                  [status |-> code, message |-> message, eventType |-> NULL]]
       IN IF ~Rampnow_verifyWebhookSignature(rawBody, signatureOf(key, rawBody))
            THEN /\ answer(401, "Invalid webhook signature")
                 /\ UNCHANGED <<wallets, onrampTransactions, onrampStatusHistory,
                                onrampMetadata>>
          ELSE IF sessionId = 0
            THEN /\ answer(400, "Missing session id")
                 /\ UNCHANGED <<wallets, onrampTransactions, onrampStatusHistory,
                                onrampMetadata>>
          ELSE IF tx = 0
            THEN /\ answer(200, "No matching transaction; ignored")
                 /\ UNCHANGED <<wallets, onrampTransactions, onrampStatusHistory,
                                onrampMetadata>>
          ELSE IF status = NULL
            THEN /\ answer(200, NULL)
                 /\ UNCHANGED <<wallets, onrampTransactions, onrampStatusHistory,
                                onrampMetadata>>
          ELSE /\ onrampHistoryRows(Len(onrampStatusHistory)) < MaxOnrampHistory
               /\ answer(200, NULL)
               /\ onrampStatusHistory' = [onrampStatusHistory EXCEPT ![tx] =
                     Append(@, onrampHistoryStatus(status))]
               /\ onrampMetadata' = [onrampMetadata EXCEPT ![tx] =
                     Append(@, [NoMetadata EXCEPT !.payload = sessionId])]
               /\ LET w == onrampTransactions[tx].walletId
                      usdcAmountReceived ==
                          IF cryptoAmount # 0 THEN cryptoAmount
                          ELSE onrampTransactions[tx].usdcAmount
                      targetAmount == (usdcAmountReceived * rate) \div 100
                  IN CASE status = "completed" ->
                            /\ wallets' = [wallets EXCEPT ![w] =
                                  IF wallets[w].currency = "USDC"
                                    THEN credit(@, usdcAmountReceived)
                                    ELSE credit(@, targetAmount)]
                            /\ onrampTransactions' = [onrampTransactions EXCEPT
                                  ![tx].circleStatus = status,
                                  ![tx].status = "COMPLETED",
                                  ![tx].completedAt = TRUE,
                                  ![tx].usdcAmount = usdcAmountReceived]
                       [] status = "failed" ->
                            /\ onrampTransactions' = [onrampTransactions EXCEPT
                                  ![tx].circleStatus = status,
                                  ![tx].status = "FAILED"]
                            /\ UNCHANGED wallets
                       [] OTHER ->
                            /\ onrampTransactions' = [onrampTransactions EXCEPT
                                  ![tx].circleStatus = status]
                            /\ UNCHANGED wallets
    /\ UNCHANGED <<users, transactions, statusHistory, proc, lastResponse, env,
                   hook, walletRequest>>
    /\ UNCHANGED rateVars
    /\ UNCHANGED serviceVars

\* ------------------------------ TransactionController.updateTransactionStatus
updateTransactionStatus(id, status) ==
    /\ IF id \notin DOMAIN transactions \/ transactions[id].userId # UserId
         THEN UNCHANGED <<wallets, transactions, statusHistory>>
         ELSE /\ historyRows(Len(statusHistory)) < MaxHistory
              /\ transactions' = [transactions EXCEPT
                    ![id].status = toUpperCase(status),
                    ![id].completedAt =
                        IF toUpperCase(status) = "COMPLETED" THEN TRUE ELSE @]
              /\ statusHistory' = [statusHistory EXCEPT ![id] =
                                      Append(@, toUpperCase(status))]
              /\ IF toUpperCase(status) = "COMPLETED"
                   THEN wallets' = [wallets EXCEPT ![transactions[id].walletId] =
                                       settle(@, totalDeductionOf(id))]
                   ELSE UNCHANGED wallets
    /\ UNCHANGED <<users, proc, lastResponse>>
    /\ UNCHANGED hookVars

\* -------------------------------------------------- ExchangeRateService
\* what fetchLatestRates('USD') may return: null (the request failed or the
\* body had no rates), or the provider's table, which lists no stablecoin
FetchOutcomes ==
    {[ok |-> FALSE, rates |-> NoRates]} \cup
    {[ok |-> TRUE, rates |-> [NoRates EXCEPT !["USD"] = 100, !["EUR"] = e]] :
        e \in EurQuotes}

\* getFallbackRates(): USD 1.0, EUR 1.09, ...
getFallbackRates == [NoRates EXCEPT !["USD"] = 100, !["EUR"] = 109]

\* getCachedRates(base): the fresh rows of that base as a table
getCachedRates(baseCurrency) ==
    [c \in Currencies |->
        IF \E r \in exchangeRates : r.fromCurrency = baseCurrency /\ r.toCurrency = c
          THEN (CHOOSE r \in exchangeRates :
                   r.fromCurrency = baseCurrency /\ r.toCurrency = c).rate
          ELSE 0]

\* cacheRates(base, rates): deleteMany for the base, createMany of the listed
\* currencies that CURRENCY_INFO supports; a store error is swallowed
cacheRates(baseCurrency, rates, storeOk) ==
    IF ~storeOk THEN exchangeRates
    ELSE {r \in exchangeRates : r.fromCurrency # baseCurrency} \cup
         {[fromCurrency |-> baseCurrency, toCurrency |-> c, rate |-> rates[c]] :
             c \in {d \in SupportedCurrencies : rates[d] # 0}}

\* mutant of rateOf: a pair the provider does not list is quoted as 0
rateOf_unlistedIsZero(rates, fromCurrency, toCurrency) ==
    IF rates[fromCurrency] # 0 /\ rates[toCurrency] # 0
      THEN (rates[toCurrency] * 100) \div rates[fromCurrency]
      ELSE 0

\* rates[from] && rates[to] ? toRate / fromRate : 1
rateOf(rates, fromCurrency, toCurrency) ==
    IF rates[fromCurrency] # 0 /\ rates[toCurrency] # 0
      THEN (rates[toCurrency] * 100) \div rates[fromCurrency]
      ELSE 100

\* the number getExchangeRate returns: 1 for one currency; the fresh cached
\* row; else toRate / fromRate of the fetched USD table; 1 when the provider
\* fails or does not list a currency, or when the cache lookup throws
exchangeRate(fromCurrency, toCurrency, cacheOk, fetched) ==
    IF fromCurrency = toCurrency THEN 100
    ELSE IF ~cacheOk THEN 100
    ELSE IF getCachedRates(fromCurrency)[toCurrency] # 0
      THEN getCachedRates(fromCurrency)[toCurrency]
    ELSE IF fetched.ok
      THEN rateOf(fetched.rates, fromCurrency, toCurrency)
    ELSE 100

\* getExchangeRate(from, to): the same-currency return, then inside try the
\* cache read (prisma.exchangeRate.findFirst, which may throw) and on a miss
\* fetchLatestRates('USD'); the catch block returns 1.  Nothing is cached.
getExchangeRate(fromCurrency, toCurrency, cacheOk, fetched) ==
    /\ quote' =
         [NoQuote EXCEPT
            !.fn = "getExchangeRate",
            !.fromCurrency = fromCurrency,
            !.toCurrency = toCurrency,
            !.rate =
               exchangeRate(fromCurrency, toCurrency, cacheOk, fetched),
            !.consulted =
               IF fromCurrency = toCurrency THEN {}
               ELSE IF ~cacheOk \/ getCachedRates(fromCurrency)[toCurrency] # 0
                 THEN {"cache"}
               ELSE {"cache", "provider"}]
    /\ UNCHANGED exchangeRates
    /\ UNCHANGED <<users, wallets, transactions, statusHistory, proc, lastResponse,
                   env, hook, webhookResponse, onrampTransactions,
                   onrampStatusHistory, onrampMetadata, walletRequest>>
    /\ UNCHANGED serviceVars

\* getExchangeRates(base): the cached table when it has rows; else the
\* fetched one, which is cached; else (or when anything throws) the fallback
\* table
getExchangeRates(baseCurrency, cacheOk, fetched, storeOk) ==
    /\ LET cached == getCachedRates(baseCurrency)
           hit == cacheOk /\ cached # NoRates
       IN /\ quote' =
               [NoQuote EXCEPT
                  !.fn = "getExchangeRates",
                  !.fromCurrency = baseCurrency,
                  !.rates = IF hit THEN cached
                            ELSE IF fetched.ok THEN fetched.rates
                            ELSE getFallbackRates,
                  !.consulted = IF hit THEN {"cache"} ELSE {"cache", "provider"}]
          /\ exchangeRates' =
               IF ~hit /\ fetched.ok
                 THEN cacheRates(baseCurrency, fetched.rates, storeOk)
                 ELSE exchangeRates
    /\ UNCHANGED <<users, wallets, transactions, statusHistory, proc, lastResponse,
                   env, hook, webhookResponse, onrampTransactions,
                   onrampStatusHistory, onrampMetadata, walletRequest>>
    /\ UNCHANGED serviceVars

\* updateExchangeRates(): fetch the USD table and cache it; true when fetched
updateExchangeRates(fetched, storeOk) ==
    /\ quote' = [NoQuote EXCEPT !.fn = "updateExchangeRates",
                                !.updated = fetched.ok,
                                !.consulted = {"provider"}]
    /\ exchangeRates' = IF fetched.ok THEN cacheRates("USD", fetched.rates, storeOk)
                        ELSE exchangeRates
    /\ UNCHANGED <<users, wallets, transactions, statusHistory, proc, lastResponse,
                   env, hook, webhookResponse, onrampTransactions,
                   onrampStatusHistory, onrampMetadata, walletRequest>>
    /\ UNCHANGED serviceVars

\* CACHE_DURATION passes: no row is fresh any more
cacheExpires ==
    /\ exchangeRates # {}
    /\ exchangeRates' = {}
    /\ UNCHANGED quote
    /\ UNCHANGED <<users, wallets, transactions, statusHistory, proc, lastResponse,
                   env, hook, webhookResponse, onrampTransactions,
                   onrampStatusHistory, onrampMetadata, walletRequest>>
    /\ UNCHANGED serviceVars

\* ------------------------------------------- requests that open a wallet
\* mutant of uniqueViolation: the wallets table has no unique index
uniqueViolation_noIndex(userId, currency) == FALSE

\* CREATE UNIQUE INDEX wallets_userId_currency_key: an insert that repeats a
\* (userId, currency) pair throws
uniqueViolation(userId, currency) ==
    \E w \in DOMAIN wallets :
        wallets[w].userId = userId /\ wallets[w].currency = currency

\* the row prisma.wallet.create inserts
newWallet(currency, circleStatus) ==
    [userId |-> UserId, currency |-> currency, balance |-> 0,
     availableBalance |-> 0, reservedBalance |-> 0, isActive |-> TRUE,
     circleStatus |-> circleStatus]

\* a request that opens a wallet leaves its handler
finishWallet(p, status) ==
    /\ walletRequest' = [walletRequest EXCEPT ![p] = WalletIdle]
    /\ lastResponse' = status

\* WalletController.addCurrencyWallet: await prisma.wallet.findFirst({ userId,
\* currency }), 409 when it finds a row
AddCurrencyWallet_findWallet(p, currency) ==
    /\ walletRequest[p].pc = "idle"
    /\ IF \E w \in DOMAIN wallets :
             wallets[w].userId = UserId /\ wallets[w].currency = currency
         THEN finishWallet(p, 409)
         ELSE /\ walletRequest' = [walletRequest EXCEPT ![p] =
                    [WalletIdle EXCEPT !.pc = "createWallet", !.currency = currency]]
              /\ UNCHANGED lastResponse
    /\ UNCHANGED <<users, wallets, transactions, statusHistory, proc, env, hook,
                   webhookResponse, onrampTransactions, onrampStatusHistory,
                   onrampMetadata>>
    /\ UNCHANGED rateVars
    /\ UNCHANGED serviceVars

\* await prisma.wallet.create: 201, or the insert throws and the catch block
\* answers 500
AddCurrencyWallet_createWallet(p) ==
    /\ walletRequest[p].pc = "createWallet"
    /\ IF uniqueViolation(UserId, walletRequest[p].currency)
         THEN /\ finishWallet(p, 500)
              /\ UNCHANGED wallets
         ELSE /\ wallets' = Append(wallets, newWallet(walletRequest[p].currency, NULL))
              /\ finishWallet(p, 201)
    /\ UNCHANGED <<users, transactions, statusHistory, proc, env, hook,
                   webhookResponse, onrampTransactions, onrampStatusHistory,
                   onrampMetadata>>
    /\ UNCHANGED rateVars
    /\ UNCHANGED serviceVars

\* usdcWallet.circleAddress is set (by createWalletWithCircle's wallet.update)
hasCircleAddress(w) == wallets[w].circleStatus \in {"ACTIVE", "LOGICAL_MAPPING"}

\* OnrampController.createOnrampTransfer up to its findFirst of the USDC
\* wallet: the bank account and target wallet checks (400), the PENDING row
\* and its history row
CreateOnrampTransfer_findUsdcWallet(p, bankAccountId, walletCurrency, amount) ==
    /\ walletRequest[p].pc = "idle"
    /\ Len(onrampTransactions) < MaxOnramp
    /\ LET w == findWallet(UserId, walletCurrency)
           usdc == findWallet(UserId, "USDC")
       IN IF findBankAccount(bankAccountId, UserId) = 0 \/ w = 0
            THEN /\ finishWallet(p, 400)
                 /\ UNCHANGED <<onrampTransactions, onrampStatusHistory, onrampMetadata>>
          ELSE /\ onrampTransactions' = Append(onrampTransactions,
                     [userId |-> UserId, walletId |-> w, amount |-> amount,
                      usdcAmount |-> amount, fee |-> amount \div 100,
                      status |-> "PENDING", circleStatus |-> NULL,
                      circleTransferId |-> 0, completedAt |-> FALSE])
               /\ onrampStatusHistory' = Append(onrampStatusHistory, <<"PENDING">>)
               /\ onrampMetadata' = Append(onrampMetadata, <<NoMetadata>>)
               /\ walletRequest' = [walletRequest EXCEPT ![p] =
                     [pc |-> IF usdc = 0 \/ ~hasCircleAddress(usdc)
                               THEN "createUsdcWallet" ELSE "createSession",
                      currency |-> "USDC", usdcWallet |-> usdc,
                      transaction |-> Len(onrampTransactions) + 1]]
               /\ UNCHANGED lastResponse
    /\ UNCHANGED <<users, wallets, transactions, statusHistory, proc, env, hook,
                   webhookResponse>>
    /\ UNCHANGED rateVars
    /\ UNCHANGED serviceVars

\* WalletService.createWalletWithCircle: await prisma.wallet.create.  When the
\* insert throws, the request goes on with the wallet findFirst gave it: none
\* (500), or one without a Circle address (400)
CreateOnrampTransfer_createUsdcWallet(p) ==
    /\ walletRequest[p].pc = "createUsdcWallet"
    /\ IF uniqueViolation(UserId, "USDC")
         THEN /\ finishWallet(p, IF walletRequest[p].usdcWallet = 0 THEN 500 ELSE 400)
              /\ UNCHANGED wallets
         ELSE /\ wallets' = Append(wallets, newWallet("USDC", "CREATING"))
              /\ walletRequest' = [walletRequest EXCEPT
                    ![p].pc = "updateUsdcWallet",
                    ![p].usdcWallet = Len(wallets) + 1]
              /\ UNCHANGED lastResponse
    /\ UNCHANGED <<users, transactions, statusHistory, proc, env, hook,
                   webhookResponse, onrampTransactions, onrampStatusHistory,
                   onrampMetadata>>
    /\ UNCHANGED rateVars
    /\ UNCHANGED serviceVars

\* await circleService.createWallet, await prisma.wallet.update: the Circle
\* address, or the logical mapping when Circle fails
CreateOnrampTransfer_updateUsdcWallet(p, circleOk) ==
    /\ walletRequest[p].pc = "updateUsdcWallet"
    /\ wallets' = [wallets EXCEPT ![walletRequest[p].usdcWallet].circleStatus =
                      IF circleOk THEN "ACTIVE" ELSE "LOGICAL_MAPPING"]
    /\ walletRequest' = [walletRequest EXCEPT ![p].pc = "createSession"]
    /\ UNCHANGED <<users, transactions, statusHistory, proc, lastResponse, env,
                   hook, webhookResponse, onrampTransactions, onrampStatusHistory,
                   onrampMetadata>>
    /\ UNCHANGED rateVars
    /\ UNCHANGED serviceVars

\* await rampnow.createOnrampSession and what follows it: the session stored
\* with a PROCESSING row (201), or FAILED with a FAILED row (500)
CreateOnrampTransfer_createSession(p, outcome) ==
    /\ walletRequest[p].pc = "createSession"
    /\ LET id == walletRequest[p].transaction
           session == sessionFor(outcome,
                         sessionParams(onrampTransactions[id], id,
                                       walletRequest[p].usdcWallet))
       IN IF session.thrown = NULL
            THEN /\ onrampTransactions' = [onrampTransactions EXCEPT
                       ![id].circleTransferId = session.id,
                       ![id].circleStatus = "pending"]
                 /\ onrampStatusHistory' = [onrampStatusHistory EXCEPT ![id] =
                       Append(@, "PROCESSING")]
                 /\ onrampMetadata' = [onrampMetadata EXCEPT ![id] =
                       Append(@, [NoMetadata EXCEPT
                                     !.checkoutUrl = session.checkoutUrl,
                                     !.sessionId = session.id])]
                 /\ finishWallet(p, 201)
            ELSE /\ onrampTransactions' = [onrampTransactions EXCEPT
                       ![id].status = "FAILED",
                       ![id].circleStatus = "FAILED"]
                 /\ onrampStatusHistory' = [onrampStatusHistory EXCEPT ![id] =
                       Append(@, "FAILED")]
                 /\ onrampMetadata' = [onrampMetadata EXCEPT ![id] =
                       Append(@, failureMetadata(session.thrown))]
                 /\ finishWallet(p, 500)
    /\ UNCHANGED <<users, wallets, transactions, statusHistory, proc, env, hook,
                   webhookResponse>>
    /\ UNCHANGED rateVars
    /\ UNCHANGED serviceVars

\* --------------------------------------------------------- BridgeService
\* amounts a bridge transfer may be asked to convert
BridgeAmounts == {5000, 10000}
\* what circleService.getWalletBalance answers for the master wallet, in
\* hundredths of a USDC (0 also when the call throws)
MasterBalances == {0, 50000, 200000}
\* const minimumBalance = 1000
minimumBalance == 100000

\* mutant of bridgeAmounts: the second leg converts the amount sent, not the USDC
bridgeAmounts_skipsUsdc(amount, fromToUsdcRate, usdcToToRate) ==
    [usdcAmount |-> (amount * fromToUsdcRate) \div 100,
     toAmount |-> (amount * usdcToToRate) \div 100]

\* usdcAmount = amount * fromToUsdcRate; finalAmount = usdcAmount * usdcToToRate
bridgeAmounts(amount, fromToUsdcRate, usdcToToRate) ==
    [usdcAmount |-> (amount * fromToUsdcRate) \div 100,
     toAmount |-> (((amount * fromToUsdcRate) \div 100) * usdcToToRate) \div 100]

\* BridgeService.processBridgeTransfer: two getExchangeRate calls, each with
\* its own cache and provider outcome, and the BridgeTransfer it returns
processBridgeTransfer(amount, fromCurrency, toCurrency, cacheOk, fetched, cacheOk2, fetched2) ==
    /\ LET fromToUsdcRate == exchangeRate(fromCurrency, "USD", cacheOk, fetched)
           usdcToToRate == exchangeRate("USD", toCurrency, cacheOk2, fetched2)
           amounts == bridgeAmounts(amount, fromToUsdcRate, usdcToToRate)
       IN bridge' = [NoBridge EXCEPT
                        !.fn = "processBridgeTransfer",
                        !.fromCurrency = fromCurrency,
                        !.toCurrency = toCurrency,
                        !.fromAmount = amount,
                        !.usdcAmount = amounts.usdcAmount,
                        !.toAmount = amounts.toAmount,
                        !.exchangeRate = (fromToUsdcRate * usdcToToRate) \div 100,
                        !.status = "pending"]
    /\ UNCHANGED <<users, wallets, transactions, statusHistory, proc, lastResponse,
                   env, hook, webhookResponse, onrampTransactions,
                   onrampStatusHistory, onrampMetadata, walletRequest,
                   isPrimary, primaryRequest>>
    /\ UNCHANGED rateVars

\* prisma.wallet.findFirst({ currency: 'USDC', circleStatus: 'ACTIVE' }); 0 when none
findMasterWallet ==
    LET hits == {w \in DOMAIN wallets :
                    wallets[w].currency = "USDC" /\ wallets[w].circleStatus = "ACTIVE"}
    IN IF hits = {} THEN 0 ELSE CHOOSE w \in hits : \A v \in hits : w <= v

\* BridgeService.rebalanceLiquidity: reads the bridge status and logs
rebalanceLiquidity(circleBalance) ==
    /\ bridge' = [NoBridge EXCEPT
                     !.fn = "rebalanceLiquidity",
                     !.log = IF findMasterWallet = 0
                               THEN "Bridge not active, skipping rebalancing"
                             ELSE IF circleBalance < minimumBalance
                               THEN "Low liquidity detected"
                             ELSE "Liquidity rebalancing completed"]
    /\ UNCHANGED <<users, wallets, transactions, statusHistory, proc, lastResponse,
                   env, hook, webhookResponse, onrampTransactions,
                   onrampStatusHistory, onrampMetadata, walletRequest,
                   isPrimary, primaryRequest>>
    /\ UNCHANGED rateVars

\* ----------------------------------------------------- BankAccountService
\* the users that hold bank accounts
AccountHolders == {UserId, "u2"}

\* PUT /:bankAccountId/primary by userId, up to the end of
\* prisma.bankAccount.updateMany({ where: { userId }, data: { isPrimary: false } })
SetPrimaryBankAccount_updateMany(p, userId, bankAccountId) ==
    /\ primaryRequest[p].pc = "idle"
    /\ isPrimary' = [b \in DOMAIN bankAccounts |->
                        IF bankAccounts[b].userId = userId THEN FALSE ELSE isPrimary[b]]
    /\ primaryRequest' = [primaryRequest EXCEPT ![p] =
          [pc |-> "update", userId |-> userId, bankAccountId |-> bankAccountId]]
    /\ UNCHANGED <<users, wallets, transactions, statusHistory, proc, lastResponse,
                   env, hook, webhookResponse, onrampTransactions,
                   onrampStatusHistory, onrampMetadata, walletRequest, bridge>>
    /\ UNCHANGED rateVars

\* await prisma.bankAccount.update({ where: { id: bankAccountId },
\* data: { isPrimary: true } }): 200, or 500 when no row has that id
SetPrimaryBankAccount_update(p) ==
    /\ primaryRequest[p].pc = "update"
    /\ IF primaryRequest[p].bankAccountId \in DOMAIN bankAccounts
         THEN /\ isPrimary' = [isPrimary EXCEPT ![primaryRequest[p].bankAccountId] = TRUE]
              /\ lastResponse' = 200
         ELSE /\ UNCHANGED isPrimary
              /\ lastResponse' = 500
    /\ primaryRequest' = [primaryRequest EXCEPT ![p] = PrimaryIdle]
    /\ UNCHANGED <<users, wallets, transactions, statusHistory, proc,
                   env, hook, webhookResponse, onrampTransactions,
                   onrampStatusHistory, onrampMetadata, walletRequest, bridge>>
    /\ UNCHANGED rateVars

\* ------------------------------------------------------------ specification
\* One createTransfer request at a time, with every reconciliation path
\* (webhook deliveries, the status endpoint) free to run between its awaits.
Next ==
    \/ initializeGateway
    \/ \E c \in SupportedCurrencies, a \in FundAmounts : addFunds(c, a)
    \/ \E p \in Requests, a \in TransferAmounts, c \in SupportedCurrencies :
          CreateTransfer_findWallet(p, a, c)
    \/ \E p \in Requests : CreateTransfer_createTransaction(p)
    \/ \E p \in Requests : CreateTransfer_reserveFunds(p)
    \/ \E p \in Requests : CreateTransfer_pendingHistory(p)
    \/ \E p \in Requests, railOk \in BOOLEAN : CreateTransfer_gatewayTransfer(p, railOk)
    \/ \E p \in Requests : CreateTransfer_updateTransaction(p)
    \/ \E p \in Requests : CreateTransfer_processingHistory(p)
    \/ \E type \in EventTypes, id \in TransferIds : handleCircleWebhook(type, id)
    \/ \E id \in 1..(MaxTx + 1), s \in StatusInputs : updateTransactionStatus(id, s)

Spec == Init /\ [][Next]_vars

\* Concurrent createTransfer requests: every interleaving of the awaits of
\* the requests in flight, funded by addFunds.
NextTransfers ==
    \/ initializeGateway
    \/ \E c \in SupportedCurrencies, a \in FundAmounts : addFunds(c, a)
    \/ \E p \in Procs, a \in TransferAmounts, c \in SupportedCurrencies :
          CreateTransfer_findWallet(p, a, c)
    \/ \E p \in Procs : CreateTransfer_createTransaction(p)
    \/ \E p \in Procs : CreateTransfer_reserveFunds(p)
    \/ \E p \in Procs : CreateTransfer_pendingHistory(p)
    \/ \E p \in Procs, railOk \in BOOLEAN : CreateTransfer_gatewayTransfer(p, railOk)
    \/ \E p \in Procs : CreateTransfer_updateTransaction(p)
    \/ \E p \in Procs : CreateTransfer_processingHistory(p)

SpecTransfers == Init /\ [][NextTransfers]_vars

\* The ledger of a user who went through the onramp flow (which creates the
\* Circle-backed USDC wallet) and whose wallets are then synced with Circle.
NextSync ==
    \/ \E circleOk \in BOOLEAN : createWalletWithCircle(circleOk)
    \/ \E w \in 1..2, b \in CircleBalances : syncWalletBalance(w, b)
    \/ \E c \in Currencies, a \in FundAmounts : addFunds(c, a)
    \/ \E id \in 1..(MaxTx + 1), s \in StatusInputs : updateTransactionStatus(id, s)

SpecSync == Init /\ [][NextSync]_vars

\* Webhook deliveries against a transfer in flight.  The ledger is the one
\* createTransfer leaves behind with the gateway initialized: 100.00 funded,
\* 50.00 + 0.75 reserved, the transfer registered at Circle under its id.
\* Circle's deliveries take the first free slot; their awaited store calls
\* interleave and may throw.
TransferInFlight ==
    /\ users = [circleCustomerId |-> UserId]
    /\ wallets = << [userId |-> UserId, currency |-> "USD", balance |-> 10000,
                     availableBalance |-> 4925, reservedBalance |-> 5075,
                     isActive |-> TRUE, circleStatus |-> NULL] >>
    /\ transactions = <<
          [userId |-> UserId, walletId |-> 1, type |-> "DEPOSIT",
           status |-> "COMPLETED", amount |-> 10000, fee |-> 0,
           circleTransferId |-> 0, completedAt |-> FALSE],
          [userId |-> UserId, walletId |-> 1, type |-> "TRANSFER_SEND",
           status |-> "PENDING", amount |-> 5000, fee |-> transferFee(5000),
           circleTransferId |-> 2, completedAt |-> FALSE] >>
    /\ statusHistory = << << >>, <<"PENDING", "PROCESSING">> >>
    /\ proc = [p \in Procs |-> Idle]
    /\ lastResponse = 201
    /\ hook = [h \in Hooks |-> HookIdle]
    /\ webhookResponse = [circle |-> NoResponse, rampnow |-> NoResponse]
    /\ onrampTransactions = << >>
    /\ onrampStatusHistory = << >>
    /\ onrampMetadata = << >>
    /\ walletRequest = [p \in Procs |-> WalletIdle]
    /\ exchangeRates = {}
    /\ quote = NoQuote
    /\ bridge = NoBridge
    /\ isPrimary = [b \in DOMAIN bankAccounts |-> FALSE]
    /\ primaryRequest = [p \in Procs |-> PrimaryIdle]

InitWebhooks ==
    /\ TransferInFlight
    /\ env = [NODE_ENV |-> "production", RAMPNOW_WEBHOOK_SECRET |-> "whsec"]

NextWebhooks ==
    \/ \E h \in Hooks, type \in EventTypes, id \in TransferIds,
          key \in {NULL} \cup SigningKeys, storeOk \in BOOLEAN :
          CircleWebhook_findTransaction(h, type, id, key, storeOk)
    \/ \E h \in Hooks, storeOk \in BOOLEAN : CircleWebhook_updateTransaction(h, storeOk)
    \/ \E h \in Hooks, storeOk \in BOOLEAN : CircleWebhook_statusHistory(h, storeOk)
    \/ \E h \in Hooks, storeOk \in BOOLEAN : CircleWebhook_findWallet(h, storeOk)
    \/ \E h \in Hooks, storeOk \in BOOLEAN : CircleWebhook_updateWallet(h, storeOk)

SpecWebhooks == InitWebhooks /\ [][NextWebhooks]_vars

\* Reconciliation of a transfer in flight: Circle's signed deliveries, their
\* awaits interleaving, next to the status endpoint.
NextReconcile ==
    \/ \E h \in Hooks, type \in EventTypes, id \in TransferIds,
          key \in {"whsec"}, storeOk \in BOOLEAN :
          CircleWebhook_findTransaction(h, type, id, key, storeOk)
    \/ \E h \in Hooks, storeOk \in BOOLEAN : CircleWebhook_updateTransaction(h, storeOk)
    \/ \E h \in Hooks, storeOk \in BOOLEAN : CircleWebhook_statusHistory(h, storeOk)
    \/ \E h \in Hooks, storeOk \in BOOLEAN : CircleWebhook_findWallet(h, storeOk)
    \/ \E h \in Hooks, storeOk \in BOOLEAN : CircleWebhook_updateWallet(h, storeOk)
    \/ \E id \in 1..(MaxTx + 1), s \in StatusInputs : updateTransactionStatus(id, s)

SpecReconcile == InitWebhooks /\ [][NextReconcile]_vars

\* The onramp flow of a user who has a transfer in flight, in production with
\* the Rampnow secret configured.  Rampnow's deliveries here are the ones
\* signed with that secret (SpecDeployments has the others); Circle's are the
\* foreign ones: events whose data.id is absent or names no transfer of this
\* store.
InitOnramp ==
    /\ TransferInFlight
    /\ env = [NODE_ENV |-> "production", RAMPNOW_WEBHOOK_SECRET |-> "whsec"]

ForeignTransferIds == {0, MaxTx + 1}

NextOnramp ==
    \/ \E b \in BankAccountIds, c \in SupportedCurrencies, a \in OnrampAmounts,
          outcome \in DeliveredOutcomes, circleOk \in BOOLEAN :
          createOnrampTransfer(b, c, a, outcome, circleOk)
    \/ \E key \in {env.RAMPNOW_WEBHOOK_SECRET}, id \in SessionIds,
          status \in RampnowStatuses, amount \in CryptoAmounts, rate \in Rates :
          RampnowWebhook_handle(key, id, status, amount, rate)
    \/ \E h \in Hooks, type \in {"transaction.completed", "transaction.failed"},
          id \in ForeignTransferIds, key \in {NULL} \cup SigningKeys :
          CircleWebhook_findTransaction(h, type, id, key, TRUE)

SpecOnramp == InitOnramp /\ [][NextOnramp]_vars

\* The onramp flow under every deployment configuration: NODE_ENV unset,
\* development or production, with and without the Rampnow webhook secret.
InitDeployments ==
    /\ InitLedger
    /\ env \in [NODE_ENV : NodeEnvs, RAMPNOW_WEBHOOK_SECRET : WebhookSecrets]

NextDeployments ==
    \/ \E b \in BankAccountIds, c \in SupportedCurrencies, a \in OnrampAmounts,
          outcome \in DeliveredOutcomes, circleOk \in BOOLEAN :
          createOnrampTransfer(b, c, a, outcome, circleOk)
    \/ \E key \in {NULL} \cup SigningKeys, id \in SessionIds,
          status \in RampnowStatuses, amount \in CryptoAmounts, rate \in Rates :
          RampnowWebhook_handle(key, id, status, amount, rate)

SpecDeployments == InitDeployments /\ [][NextDeployments]_vars

\* Requests that open wallets, every interleaving of their awaits:
\* addCurrencyWallet and the onramp flow's get-or-create of the USDC wallet.
NextWallets ==
    \/ \E p \in Procs, c \in Currencies : AddCurrencyWallet_findWallet(p, c)
    \/ \E p \in Procs : AddCurrencyWallet_createWallet(p)
    \/ \E p \in Procs, b \in BankAccountIds, c \in SupportedCurrencies,
          a \in OnrampAmounts :
          CreateOnrampTransfer_findUsdcWallet(p, b, c, a)
    \/ \E p \in Procs : CreateOnrampTransfer_createUsdcWallet(p)
    \/ \E p \in Procs, circleOk \in BOOLEAN : CreateOnrampTransfer_updateUsdcWallet(p, circleOk)
    \/ \E p \in Procs, outcome \in SessionOutcomes : CreateOnrampTransfer_createSession(p, outcome)

SpecWallets == Init /\ [][NextWallets]_vars

\* The exchange rate service against its cache and its provider.
NextRates ==
    \/ \E f \in Currencies, t \in Currencies, cacheOk \in BOOLEAN,
          fetched \in FetchOutcomes : getExchangeRate(f, t, cacheOk, fetched)
    \/ \E cacheOk \in BOOLEAN, fetched \in FetchOutcomes, storeOk \in BOOLEAN :
          getExchangeRates("USD", cacheOk, fetched, storeOk)
    \/ \E fetched \in FetchOutcomes, storeOk \in BOOLEAN :
          updateExchangeRates(fetched, storeOk)
    \/ cacheExpires

SpecRates == Init /\ [][NextRates]_vars

\* Onramp sessions being completed.  The ledger is either the one after
\* registration, or that of two onramp requests: the first, into the USD
\* wallet, has opened the USDC wallet and awaits rampnow.createOnrampSession;
\* the second, into the USDC wallet, has its session.
CreditInFlight ==
    /\ users = [circleCustomerId |-> NULL]
    /\ wallets = << [userId |-> UserId, currency |-> "USD", balance |-> 0,
                     availableBalance |-> 0, reservedBalance |-> 0,
                     isActive |-> TRUE, circleStatus |-> NULL],
                    newWallet("USDC", "ACTIVE") >>
    /\ transactions = << >>
    /\ statusHistory = << >>
    /\ proc = [p \in Procs |-> Idle]
    /\ lastResponse = 201
    /\ hook = [h \in Hooks |-> HookIdle]
    /\ webhookResponse = [circle |-> NoResponse, rampnow |-> NoResponse]
    /\ onrampTransactions = <<
          [userId |-> UserId, walletId |-> 1, amount |-> 10000,
           usdcAmount |-> 10000, fee |-> 100, status |-> "PENDING",
           circleStatus |-> NULL, circleTransferId |-> 0, completedAt |-> FALSE],
          [userId |-> UserId, walletId |-> 2, amount |-> 10000,
           usdcAmount |-> 10000, fee |-> 100, status |-> "PENDING",
           circleStatus |-> "pending", circleTransferId |-> 2,
           completedAt |-> FALSE] >>
    /\ onrampStatusHistory = << <<"PENDING">>, <<"PENDING", "PROCESSING">> >>
    /\ onrampMetadata = << <<NoMetadata>>,
                           <<NoMetadata,
                             [NoMetadata EXCEPT
                                 !.checkoutUrl = [NoUrl EXCEPT !.origin = "redirectUrl"],
                                 !.sessionId = 2]>> >>
    /\ walletRequest = [p \in Procs |->
          IF p = "r1"
            THEN [pc |-> "createSession", currency |-> "USDC", usdcWallet |-> 2,
                  transaction |-> 1]
            ELSE WalletIdle]
    /\ exchangeRates = {}
    /\ quote = NoQuote
    /\ bridge = NoBridge
    /\ isPrimary = [b \in DOMAIN bankAccounts |-> FALSE]
    /\ primaryRequest = [p \in Procs |-> PrimaryIdle]

InitCredit ==
    /\ InitLedger \/ CreditInFlight
    /\ env = [NODE_ENV |-> "production", RAMPNOW_WEBHOOK_SECRET |-> "whsec"]

NextCredit ==
    \/ \E b \in BankAccountIds, c \in SupportedCurrencies, a \in OnrampAmounts,
          outcome \in SessionOutcomes, circleOk \in BOOLEAN :
          createOnrampTransfer(b, c, a, outcome, circleOk)
    \/ \E p \in Procs, outcome \in SessionOutcomes :
          CreateOnrampTransfer_createSession(p, outcome)
    \/ \E key \in {env.RAMPNOW_WEBHOOK_SECRET}, id \in SessionIds,
          status \in RampnowStatuses, amount \in CryptoAmounts, rate \in Rates :
          RampnowWebhook_handle(key, id, status, amount, rate)

SpecCredit == InitCredit /\ [][NextCredit]_vars

\* ------------------------------------------------------------------ claims
\* the request in slot p has committed its reservation and not yet answered
reservationCommitted(p) ==
    proc[p].pc \in {"pendingHistory", "gatewayTransfer", "updateTransaction",
                    "processingHistory"}

\* C1: every wallet's balance equals availableBalance + reservedBalance in
\* every state reachable by committed operations, syncWalletBalance included.
C1_BalanceIdentity ==
    \A w \in DOMAIN wallets :
        wallets[w].balance = wallets[w].availableBalance + wallets[w].reservedBalance

\* C2: two concurrent createTransfer requests on one wallet never both commit
\* a reservation the wallet cannot cover: while both hold their reservation
\* the wallet's availableBalance has not been driven below zero.
C2_NoJointOverdraw ==
    \A p, q \in Procs :
        (/\ p # q
         /\ reservationCommitted(p)
         /\ reservationCommitted(q)
         /\ proc[p].wallet = proc[q].wallet)
        => wallets[proc[p].wallet].availableBalance >= 0

\* C3: availableBalance and reservedBalance of every wallet are never negative.
C3_NonNegativeBalances ==
    \A w \in DOMAIN wallets :
        /\ wallets[w].availableBalance >= 0
        /\ wallets[w].reservedBalance >= 0

\* C4: a stored status only moves PENDING -> PROCESSING -> COMPLETED or
\* PENDING/PROCESSING -> FAILED; COMPLETED and FAILED are never left.
C4_StatusMachine ==
    [][\A t \in DOMAIN transactions :
          transactions'[t].status # transactions[t].status =>
              <<transactions[t].status, transactions'[t].status>> \in
                  {<<"PENDING", "PROCESSING">>, <<"PROCESSING", "COMPLETED">>,
                   <<"PENDING", "FAILED">>, <<"PROCESSING", "FAILED">>}]_vars

\* C5: a "completed" event delivered for a transaction that is already
\* COMPLETED leaves every wallet's balances as they were.
C5_CompletedIdempotent ==
    [][\A id \in TransferIds \ {0} :
          (/\ findByCircleTransferId(id) # 0
           /\ transactions[findByCircleTransferId(id)].status = "COMPLETED"
           /\ handleCircleWebhook("transaction.completed", id))
          => wallets' = wallets]_vars

\* C6: a "failed" event delivered for a transaction that is already FAILED
\* releases nothing more: every wallet's balances stay as they were.
C6_FailedIdempotent ==
    [][\A id \in TransferIds \ {0} :
          (/\ findByCircleTransferId(id) # 0
           /\ transactions[findByCircleTransferId(id)].status = "FAILED"
           /\ handleCircleWebhook("transaction.failed", id))
          => wallets' = wallets]_vars

\* C7: a "completed" event for a FAILED transaction, or a "failed" event for
\* a COMPLETED one, changes neither the transaction row nor any wallet.
C7_TerminalClosed ==
    [][\A id \in TransferIds \ {0} :
          (/\ findByCircleTransferId(id) # 0
           /\ \/ /\ transactions[findByCircleTransferId(id)].status = "FAILED"
                 /\ handleCircleWebhook("transaction.completed", id)
              \/ /\ transactions[findByCircleTransferId(id)].status = "COMPLETED"
                 /\ handleCircleWebhook("transaction.failed", id))
          => /\ wallets' = wallets
             /\ transactions' = transactions]_vars

\* C8: when the gateway call of createTransfer throws, the request leaves its
\* transaction FAILED and its amount + fee back in availableBalance.
C8_InitiationFailureReleases ==
    [][\A p \in Procs :
          (/\ proc[p].pc = "gatewayTransfer"
           /\ CreateTransfer_gatewayTransfer(p, FALSE))
          => LET t == proc[p].transaction
                 w == proc[p].wallet
                 d == transactions[t].amount + transactions[t].fee
             IN /\ transactions'[t].status = "FAILED"
                /\ wallets'[w].availableBalance = wallets[w].availableBalance + d
                /\ wallets'[w].reservedBalance = wallets[w].reservedBalance - d]_vars

\* C9: createTransfer stores one PENDING TRANSFER_SEND row with fee = 1.5% of
\* the amount, then moves exactly amount + fee from availableBalance to
\* reservedBalance with balance untouched, then appends one PENDING history row.
C9_ReservationEffect ==
    [][\A p \in Procs :
          /\ (proc[p].pc = "createTransaction" /\ proc'[p].pc # "createTransaction")
             => /\ Len(transactions') = Len(transactions) + 1
                /\ LET tx == transactions'[Len(transactions')]
                   IN /\ tx.type = "TRANSFER_SEND"
                      /\ tx.status = "PENDING"
                      /\ tx.amount = proc[p].amount
                      /\ 1000 * tx.fee = 15 * tx.amount
                /\ wallets' = wallets
          /\ (proc[p].pc = "reserveFunds" /\ proc'[p].pc # "reserveFunds")
             => LET w == proc[p].wallet
                    tx == transactions[proc[p].transaction]
                    d == tx.amount + tx.fee
                IN /\ wallets'[w].balance = wallets[w].balance
                   /\ wallets'[w].availableBalance = wallets[w].availableBalance - d
                   /\ wallets'[w].reservedBalance = wallets[w].reservedBalance + d
                   /\ transactions' = transactions
          /\ (proc[p].pc = "pendingHistory" /\ proc'[p].pc # "pendingHistory")
             => /\ statusHistory'[proc[p].transaction] =
                      Append(statusHistory[proc[p].transaction], "PENDING")
                /\ wallets' = wallets
                /\ transactions' = transactions]_vars

\* C9 witness: 100.00 funded, a transfer of 50.00 answered 201.
C9_Witness ==
    /\ lastResponse = 201
    /\ \E w \in DOMAIN wallets :
          /\ wallets[w].balance = 10000
          /\ wallets[w].availableBalance = 4925
          /\ wallets[w].reservedBalance = 5075
    /\ \E t \in DOMAIN transactions :
          /\ transactions[t].type = "TRANSFER_SEND"
          /\ transactions[t].status = "PENDING"
          /\ transactions[t].amount = 5000
          /\ transactions[t].fee = 75
          /\ statusHistory[t] = <<"PENDING">>

\* C10: a createTransfer that finds no active source wallet (404) or less
\* availableBalance than amount + fee (400) returns at once and changes no
\* wallet, transaction or history row.
C10_RejectionMutatesNothing ==
    [][\A p \in Procs, a \in TransferAmounts, c \in SupportedCurrencies :
          LET w == findWallet(UserId, c)
              missing == w = 0
              short == w # 0 /\ 1000 * wallets[w].availableBalance < 1015 * a
          IN (/\ CreateTransfer_findWallet(p, a, c)
              /\ missing \/ short)
             => /\ wallets' = wallets
                /\ transactions' = transactions
                /\ statusHistory' = statusHistory
                /\ proc'[p] = Idle
                /\ lastResponse' = IF missing THEN 404 ELSE 400]_vars

\* C10 witness: a request was turned down with 400 although the wallet still
\* has funds, and another one is holding a reservation meanwhile.
C10_Witness ==
    /\ lastResponse = 400
    /\ \E w \in DOMAIN wallets :
          /\ wallets[w].availableBalance > 0
          /\ wallets[w].reservedBalance > 0

\* C11: completing a send transaction takes exactly amount + fee off the
\* wallet's balance and reservedBalance, leaves availableBalance alone, and
\* stores status COMPLETED with completedAt set: in the completed webhook
\* (the status at its transaction.update, the wallet at its wallet.update) and
\* in the status endpoint sent "completed".
C11_CompletionEffect ==
    [][/\ \A h \in Hooks :
            (/\ hook[h].type = "transaction.completed"
             /\ transactions[hook[h].transaction].type = "TRANSFER_SEND")
            => LET t == hook[h].transaction
                   w == transactions[t].walletId
                   d == transactions[t].amount + transactions[t].fee
               IN /\ (hook[h].pc = "updateTransaction"
                        /\ CircleWebhook_updateTransaction(h, TRUE))
                     => /\ transactions'[t].status = "COMPLETED"
                        /\ transactions'[t].completedAt
                  /\ (hook[h].pc = "updateWallet"
                        /\ CircleWebhook_updateWallet(h, TRUE))
                     => /\ wallets'[w].balance = wallets[w].balance - d
                        /\ wallets'[w].reservedBalance = wallets[w].reservedBalance - d
                        /\ wallets'[w].availableBalance = wallets[w].availableBalance
       /\ \A t \in DOMAIN transactions :
            (/\ transactions[t].type = "TRANSFER_SEND"
             /\ updateTransactionStatus(t, "completed"))
            => LET w == transactions[t].walletId
                   d == transactions[t].amount + transactions[t].fee
               IN /\ wallets'[w].balance = wallets[w].balance - d
                  /\ wallets'[w].reservedBalance = wallets[w].reservedBalance - d
                  /\ wallets'[w].availableBalance = wallets[w].availableBalance
                  /\ transactions'[t].status = "COMPLETED"
                  /\ transactions'[t].completedAt]_vars

\* C11 witness: 100.00 funded, a transfer of 50.00 reserved and completed.
C11_Witness ==
    \E t \in DOMAIN transactions :
        /\ transactions[t].type = "TRANSFER_SEND"
        /\ transactions[t].status = "COMPLETED"
        /\ transactions[t].completedAt
        /\ transactions[t].amount = 5000
        /\ wallets[transactions[t].walletId].balance = 4925
        /\ wallets[transactions[t].walletId].availableBalance = 4925
        /\ wallets[transactions[t].walletId].reservedBalance = 0

\* C12: every step that moves a pending send transaction to FAILED (failed
\* webhook, status endpoint) adds amount + fee to the wallet's availableBalance, takes it off
\* reservedBalance and leaves balance alone.
C12_FailureEffect ==
    [][\A t \in DOMAIN transactions :
          (/\ transactions[t].type = "TRANSFER_SEND"
           /\ transactions[t].status = "PENDING"
           /\ transactions'[t].status = "FAILED")
          => LET w == transactions[t].walletId
                 d == transactions[t].amount + transactions[t].fee
             IN /\ wallets'[w].availableBalance = wallets[w].availableBalance + d
                /\ wallets'[w].reservedBalance = wallets[w].reservedBalance - d
                /\ wallets'[w].balance = wallets[w].balance]_vars

\* C13: a "completed" and a "failed" delivery for one transfer, handled
\* concurrently, never both get to write its status: of two such handlers in
\* flight at most one is past its transaction.update.
C13_NoConflictingHandlers ==
    \A g, h \in Hooks :
        (/\ g # h
         /\ hook[g].transaction # 0
         /\ hook[g].transaction = hook[h].transaction
         /\ hook[g].type = "transaction.completed"
         /\ hook[h].type = "transaction.failed")
        => ~(/\ hook[g].pc \in {"statusHistory", "findWallet", "updateWallet"}
             /\ hook[h].pc \in {"statusHistory", "findWallet", "updateWallet"})

\* C14: a Circle delivery with no signature, or one signed with a key that is
\* not Circle's, is answered 401 and is not handled: no transaction, history
\* row or wallet changes and no handler is started for it.
C14_UnsignedRejected ==
    [][\A h \in Hooks, type \in EventTypes, id \in TransferIds,
          key \in {NULL, "forged"}, storeOk \in BOOLEAN :
          CircleWebhook_findTransaction(h, type, id, key, storeOk)
          => /\ webhookResponse'.circle.status = 401
             /\ hook'[h] = HookIdle
             /\ wallets' = wallets
             /\ transactions' = transactions
             /\ statusHistory' = statusHistory]_vars

\* C15: with NODE_ENV other than 'development', a Rampnow delivery without a
\* signature, or any delivery while no webhook secret is configured, is
\* answered 401 and changes no wallet and no onramp row.
C15_NoBypassOutsideDevelopment ==
    [][\A key \in {NULL} \cup SigningKeys, id \in SessionIds,
          status \in RampnowStatuses, amount \in CryptoAmounts, rate \in Rates :
          (/\ env.NODE_ENV # "development"
           /\ key = NULL \/ env.RAMPNOW_WEBHOOK_SECRET = NULL
           /\ RampnowWebhook_handle(key, id, status, amount, rate))
          => /\ webhookResponse'.rampnow.status = 401
             /\ wallets' = wallets
             /\ onrampTransactions' = onrampTransactions
             /\ onrampStatusHistory' = onrampStatusHistory]_vars

\* C15 witness: NODE_ENV is unset and no secret is configured; a session is
\* open and a delivery for it has been turned down.
C15_Witness ==
    /\ env.NODE_ENV = NULL
    /\ env.RAMPNOW_WEBHOOK_SECRET = NULL
    /\ webhookResponse.rampnow.status = 401
    /\ \E t \in DOMAIN onrampTransactions :
          /\ onrampTransactions[t].circleTransferId # 0
          /\ onrampTransactions[t].status = "PENDING"

\* C16: a Circle delivery whose store call throws answers 500 and has not
\* touched any wallet; the only step of a delivery that writes a wallet is its
\* last one, which settles (completed) or releases (failed) amount + fee once
\* and answers 200.  A failed delivery followed by its successful redelivery
\* has therefore applied the wallet mutation exactly once.
C16_OnceUnderPartialFailure ==
    [][/\ \A h \in Hooks :
            (\/ hook[h].pc = "updateTransaction" /\ CircleWebhook_updateTransaction(h, FALSE)
             \/ hook[h].pc = "statusHistory" /\ CircleWebhook_statusHistory(h, FALSE)
             \/ hook[h].pc = "findWallet" /\ CircleWebhook_findWallet(h, FALSE)
             \/ hook[h].pc = "updateWallet" /\ CircleWebhook_updateWallet(h, FALSE))
            => /\ wallets' = wallets
               /\ webhookResponse'.circle.status = 500
               /\ hook'[h] = HookIdle
       /\ wallets' # wallets
            => \E h \in Hooks :
                  LET t == hook[h].transaction
                      w == transactions[t].walletId
                      d == transactions[t].amount + transactions[t].fee
                  IN /\ hook[h].pc = "updateWallet"
                     /\ hook'[h] = HookIdle
                     /\ webhookResponse'.circle.status = 200
                     /\ wallets' = [wallets EXCEPT ![w] =
                           IF hook[h].type = "transaction.completed"
                             THEN [@ EXCEPT !.balance = @ - d,
                                            !.reservedBalance = @ - d]
                             ELSE [@ EXCEPT !.availableBalance = @ + d,
                                            !.reservedBalance = @ - d]]]_vars

\* C16 witness: a completed delivery wrote its history row and then failed;
\* the redelivery went through: two COMPLETED rows, the 50.75 settled once.
C16_Witness ==
    /\ \A h \in Hooks : hook[h].pc = "idle"
    /\ webhookResponse.circle.status = 200
    /\ \E t \in DOMAIN transactions :
          /\ statusHistory[t] = <<"PENDING", "PROCESSING", "COMPLETED", "COMPLETED">>
          /\ transactions[t].status = "COMPLETED"
          /\ wallets[transactions[t].walletId].balance = 4925
          /\ wallets[transactions[t].walletId].availableBalance = 4925
          /\ wallets[transactions[t].walletId].reservedBalance = 0

C18_UnknownIdIgnored ==
    [][/\ (/\ lastResponse' = lastResponse
           /\ onrampTransactions' = onrampTransactions
           /\ webhookResponse'.rampnow = webhookResponse.rampnow)
          => \A id \in TransferIds \ {0} :
                (\A t \in DOMAIN transactions :
                    transactions[t].circleTransferId # id)
                => \A h \in Hooks, type \in handledTypes,
                      key \in {NULL} \cup SigningKeys :
                      CircleWebhook_findTransaction(h, type, id, key, TRUE)
                      => /\ webhookResponse'.circle.status = 200
                         /\ hook'[h] = HookIdle
                         /\ wallets' = wallets
                         /\ transactions' = transactions
                         /\ statusHistory' = statusHistory
       /\ (/\ lastResponse' = lastResponse
           /\ hook' = hook
           /\ webhookResponse'.circle = webhookResponse.circle)
          => \A id \in SessionIds \ {0} :
                (\A t \in DOMAIN onrampTransactions :
                    onrampTransactions[t].circleTransferId # id)
                => \A key \in {NULL} \cup SigningKeys, status \in RampnowStatuses,
                      amount \in CryptoAmounts, rate \in Rates :
                      (/\ Rampnow_verifyWebhookSignature(<<id, status, amount>>,
                            signatureOf(key, <<id, status, amount>>))
                       /\ RampnowWebhook_handle(key, id, status, amount, rate))
                      => /\ webhookResponse'.rampnow.status = 200
                         /\ wallets' = wallets
                         /\ onrampTransactions' = onrampTransactions
                         /\ onrampStatusHistory' = onrampStatusHistory]_vars

\* C18 witness: with a transfer and an onramp session in flight, both
\* endpoints have acknowledged an event about something else.
C18_Witness ==
    /\ webhookResponse.circle.status = 200
    /\ webhookResponse.circle.eventType = "transaction.completed"
    /\ webhookResponse.rampnow.status = 200
    /\ webhookResponse.rampnow.message = "No matching transaction; ignored"
    /\ \E t \in DOMAIN transactions :
          /\ transactions[t].circleTransferId # 0
          /\ transactions[t].status = "PENDING"
          /\ statusHistory[t] = <<"PENDING", "PROCESSING">>
    /\ \E t \in DOMAIN onrampTransactions :
          /\ onrampTransactions[t].circleTransferId # 0
          /\ onrampTransactions[t].status = "PENDING"
          /\ onrampStatusHistory[t] = <<"PENDING", "PROCESSING">>

\* C19: when createTransfer answers after a successful gateway initiation its
\* transaction is PROCESSING, carries the external transfer id and has a
\* PROCESSING history row as its latest; createTransfer never stores COMPLETED.
C19_ProcessingAfterInitiation ==
    [][\A p \in Procs :
          (/\ proc[p].pc = "processingHistory"
           /\ CreateTransfer_processingHistory(p))
          => LET t == proc[p].transaction
             IN /\ transactions'[t].status = "PROCESSING"
                /\ transactions'[t].circleTransferId # 0
                /\ statusHistory'[t][Len(statusHistory'[t])] = "PROCESSING"]_vars

\* C20: a created or confirmed event for a known transaction appends one
\* PROCESSING history row and is acknowledged; no step of its handler, failed
\* or not, changes a wallet or a transaction row.
C20_CreatedConfirmedFrame ==
    [][/\ (wallets' # wallets \/ transactions' # transactions
             \/ statusHistory' # statusHistory)
          => \A h \in Hooks, id \in TransferIds \ {0},
                type \in {"transaction.created", "transaction.confirmed"},
                key \in {NULL} \cup SigningKeys, storeOk \in BOOLEAN :
                ~(/\ hook[h].pc = "idle"
                  /\ findByCircleTransferId(id) # 0
                  /\ CircleWebhook_findTransaction(h, type, id, key, storeOk))
       /\ \A h \in Hooks, storeOk \in BOOLEAN :
             (/\ hook[h].pc = "statusHistory"
              /\ hook[h].type \in {"transaction.created", "transaction.confirmed"}
              /\ CircleWebhook_statusHistory(h, storeOk))
             => /\ wallets' = wallets
                /\ transactions' = transactions
                /\ hook'[h] = HookIdle
                /\ IF storeOk
                     THEN /\ statusHistory' =
                                [statusHistory EXCEPT ![hook[h].transaction] =
                                    Append(@, "PROCESSING")]
                          /\ webhookResponse'.circle.status = 200
                     ELSE statusHistory' = statusHistory]_vars

\* C20 witness: a transfer holding its reservation has received a created or
\* confirmed event on top of createTransfer's own two history rows.
C20_Witness ==
    \E t \in DOMAIN transactions :
        /\ statusHistory[t] = <<"PENDING", "PROCESSING", "PROCESSING">>
        /\ transactions[t].status = "PENDING"
        /\ wallets[transactions[t].walletId].reservedBalance =
              transactions[t].amount + transactions[t].fee

\* amount + fee of the first n transactions that are in-flight sends of wallet w
RECURSIVE inFlightTotal(_, _)
inFlightTotal(w, n) ==
    IF n = 0 THEN 0
    ELSE inFlightTotal(w, n - 1) +
         (IF /\ transactions[n].walletId = w
             /\ transactions[n].type = "TRANSFER_SEND"
             /\ transactions[n].status \in {"PENDING", "PROCESSING"}
            THEN totalDeductionOf(n) ELSE 0)

\* The bridge at work over a ledger with onramp requests in it, while the
\* exchange rate cache fills and expires.
NextBridge ==
    \/ \E a \in BridgeAmounts, f \in Currencies, t \in Currencies,
          cacheOk \in BOOLEAN, fetched \in FetchOutcomes,
          cacheOk2 \in BOOLEAN, fetched2 \in FetchOutcomes :
          processBridgeTransfer(a, f, t, cacheOk, fetched, cacheOk2, fetched2)
    \/ \E circleBalance \in MasterBalances : rebalanceLiquidity(circleBalance)
    \/ \E fetched \in FetchOutcomes, storeOk \in BOOLEAN :
          updateExchangeRates(fetched, storeOk)
    \/ cacheExpires

SpecBridge == InitCredit /\ [][NextBridge]_vars

\* Requests of user u1 over a ledger that also holds another user's rows: two
\* wallets, a transfer that is PENDING with funds reserved, and (in the second
\* ledger, where u1 awaits rampnow.createOnrampSession) an onramp with a session.
TenantsAtRest ==
    /\ users = [circleCustomerId |-> UserId]
    /\ wallets = << [userId |-> "u2", currency |-> "USD", balance |-> 10000,
                     availableBalance |-> 4925, reservedBalance |-> 5075,
                     isActive |-> TRUE, circleStatus |-> NULL],
                    [userId |-> "u2", currency |-> "USDC", balance |-> 0,
                     availableBalance |-> 0, reservedBalance |-> 0,
                     isActive |-> TRUE, circleStatus |-> "ACTIVE"],
                    [userId |-> UserId, currency |-> "USD", balance |-> 0,
                     availableBalance |-> 0, reservedBalance |-> 0,
                     isActive |-> TRUE, circleStatus |-> NULL] >>
    /\ transactions = <<
          [userId |-> "u2", walletId |-> 1, type |-> "TRANSFER_SEND",
           status |-> "PENDING", amount |-> 5000, fee |-> transferFee(5000),
           circleTransferId |-> 0, completedAt |-> FALSE] >>
    /\ statusHistory = << <<"PENDING">> >>
    /\ proc = [p \in Procs |-> Idle]
    /\ lastResponse = 0
    /\ hook = [h \in Hooks |-> HookIdle]
    /\ webhookResponse = [circle |-> NoResponse, rampnow |-> NoResponse]
    /\ onrampTransactions = << >>
    /\ onrampStatusHistory = << >>
    /\ onrampMetadata = << >>
    /\ walletRequest = [p \in Procs |-> WalletIdle]
    /\ exchangeRates = {}
    /\ quote = NoQuote
    /\ bridge = NoBridge
    /\ isPrimary = [b \in DOMAIN bankAccounts |-> FALSE]
    /\ primaryRequest = [p \in Procs |-> PrimaryIdle]

TenantsInFlight ==
    /\ users = [circleCustomerId |-> UserId]
    /\ wallets = << [userId |-> "u2", currency |-> "USD", balance |-> 10000,
                     availableBalance |-> 4925, reservedBalance |-> 5075,
                     isActive |-> TRUE, circleStatus |-> NULL],
                    [userId |-> "u2", currency |-> "USDC", balance |-> 0,
                     availableBalance |-> 0, reservedBalance |-> 0,
                     isActive |-> TRUE, circleStatus |-> "ACTIVE"],
                    [userId |-> UserId, currency |-> "USD", balance |-> 0,
                     availableBalance |-> 0, reservedBalance |-> 0,
                     isActive |-> TRUE, circleStatus |-> NULL],
                    newWallet("USDC", "ACTIVE") >>
    /\ transactions = <<
          [userId |-> "u2", walletId |-> 1, type |-> "TRANSFER_SEND",
           status |-> "PENDING", amount |-> 5000, fee |-> transferFee(5000),
           circleTransferId |-> 0, completedAt |-> FALSE] >>
    /\ statusHistory = << <<"PENDING">> >>
    /\ proc = [p \in Procs |-> Idle]
    /\ lastResponse = 0
    /\ hook = [h \in Hooks |-> HookIdle]
    /\ webhookResponse = [circle |-> NoResponse, rampnow |-> NoResponse]
    /\ onrampTransactions = <<
          [userId |-> "u2", walletId |-> 1, amount |-> 10000,
           usdcAmount |-> 10000, fee |-> 100, status |-> "PENDING",
           circleStatus |-> "pending", circleTransferId |-> 1,
           completedAt |-> FALSE],
          [userId |-> UserId, walletId |-> 3, amount |-> 10000,
           usdcAmount |-> 10000, fee |-> 100, status |-> "PENDING",
           circleStatus |-> NULL, circleTransferId |-> 0, completedAt |-> FALSE] >>
    /\ onrampStatusHistory = << <<"PENDING", "PROCESSING">>, <<"PENDING">> >>
    /\ onrampMetadata = << <<NoMetadata,
                             [NoMetadata EXCEPT
                                 !.checkoutUrl = [NoUrl EXCEPT !.origin = "redirectUrl"],
                                 !.sessionId = 1]>>,
                           <<NoMetadata>> >>
    /\ walletRequest = [p \in Procs |->
          IF p = "r1"
            THEN [pc |-> "createSession", currency |-> "USD", usdcWallet |-> 4,
                  transaction |-> 2]
            ELSE WalletIdle]
    /\ exchangeRates = {}
    /\ quote = NoQuote
    /\ bridge = NoBridge
    /\ isPrimary = [b \in DOMAIN bankAccounts |-> FALSE]
    /\ primaryRequest = [p \in Procs |-> PrimaryIdle]

InitTenants ==
    /\ TenantsAtRest \/ TenantsInFlight
    /\ env = [NODE_ENV |-> "production", RAMPNOW_WEBHOOK_SECRET |-> "whsec"]

\* no request is between two of its awaits
atRest ==
    /\ \A p \in Procs : proc[p].pc = "idle"
    /\ \A p \in Procs : walletRequest[p].pc = "idle"

\* the requests come in turn: one starts when the one before has been answered
NextTenants ==
    \/ \E a \in FundAmounts : atRest /\ addFunds("USD", a)
    \/ \E p \in Requests, a \in TransferAmounts :
          atRest /\ CreateTransfer_findWallet(p, a, "USD")
    \/ \E p \in Requests : CreateTransfer_createTransaction(p)
    \/ \E p \in Requests : CreateTransfer_reserveFunds(p)
    \/ \E p \in Requests : CreateTransfer_pendingHistory(p)
    \/ \E p \in Requests, railOk \in BOOLEAN : CreateTransfer_gatewayTransfer(p, railOk)
    \/ \E p \in Requests : CreateTransfer_updateTransaction(p)
    \/ \E p \in Requests : CreateTransfer_processingHistory(p)
    \/ \E id \in 1..(MaxTx + 1), s \in StatusInputs :
          atRest /\ updateTransactionStatus(id, s)
    \/ \E p \in Requests, c \in {"USD", "USDC"} :
          atRest /\ AddCurrencyWallet_findWallet(p, c)
    \/ \E p \in Requests : AddCurrencyWallet_createWallet(p)
    \/ \E b \in BankAccountIds, c \in {"USD"}, a \in OnrampAmounts,
          outcome \in DeliveredOutcomes, circleOk \in BOOLEAN :
          atRest /\ createOnrampTransfer(b, c, a, outcome, circleOk)
    \/ \E p \in Requests, outcome \in DeliveredOutcomes :
          CreateOnrampTransfer_createSession(p, outcome)

SpecTenants == InitTenants /\ [][NextTenants]_vars

\* setPrimaryBankAccount requests of both users, their awaits interleaved
NextPrimary ==
    \/ \E p \in Procs, u \in AccountHolders, b \in BankAccountIds :
          SetPrimaryBankAccount_updateMany(p, u, b)
    \/ \E p \in Procs : SetPrimaryBankAccount_update(p)

SpecPrimary == Init /\ [][NextPrimary]_vars

\* One transfer and the rail's answer to it.  Requests run to their end, and
\* the rail delivers a completed or a failed event for every transfer it was
\* given, for as long as that transfer is PENDING.
railDelivers(t) ==
    /\ t \in DOMAIN transactions
    /\ transactions[t].circleTransferId # 0
    /\ transactions[t].status = "PENDING"
    /\ \E type \in {"transaction.completed", "transaction.failed"} :
          handleCircleWebhook(type, transactions[t].circleTransferId)

NextDelivery ==
    \/ initializeGateway
    \/ \E c \in SupportedCurrencies, a \in FundAmounts : addFunds(c, a)
    \/ \E p \in Requests, a \in TransferAmounts, c \in SupportedCurrencies :
          /\ \A t \in DOMAIN transactions : transactions[t].type # "TRANSFER_SEND"
          /\ CreateTransfer_findWallet(p, a, c)
    \/ \E p \in Requests : CreateTransfer_createTransaction(p)
    \/ \E p \in Requests : CreateTransfer_reserveFunds(p)
    \/ \E p \in Requests : CreateTransfer_pendingHistory(p)
    \/ \E p \in Requests, railOk \in BOOLEAN : CreateTransfer_gatewayTransfer(p, railOk)
    \/ \E p \in Requests : CreateTransfer_updateTransaction(p)
    \/ \E p \in Requests : CreateTransfer_processingHistory(p)
    \/ \E t \in 1..MaxTx : railDelivers(t)

SpecDelivery ==
    /\ Init
    /\ [][NextDelivery]_vars
    /\ \A p \in Requests :
          /\ WF_vars(CreateTransfer_createTransaction(p))
          /\ WF_vars(CreateTransfer_reserveFunds(p))
          /\ WF_vars(CreateTransfer_pendingHistory(p))
          /\ WF_vars(\E railOk \in BOOLEAN : CreateTransfer_gatewayTransfer(p, railOk))
          /\ WF_vars(CreateTransfer_updateTransaction(p))
          /\ WF_vars(CreateTransfer_processingHistory(p))
    /\ \A t \in 1..MaxTx : WF_vars(railDelivers(t))

\* C21: whenever no createTransfer request is between its awaits, each
\* wallet's reservedBalance is the sum of amount + fee over its in-flight
\* (PENDING or PROCESSING) send transactions.
C21_ReservedMatchesInFlight ==
    (\A p \in Procs : proc[p].pc = "idle")
    => \A w \in DOMAIN wallets :
          wallets[w].reservedBalance = inFlightTotal(w, Len(transactions))

\* C22: addFunds with a positive amount on an existing active wallet adds
\* exactly that amount to its balance and availableBalance, leaves its
\* reservedBalance and every other wallet alone, and appends exactly one
\* DEPOSIT transaction in status COMPLETED; with no such wallet or an amount
\* that is not positive it writes nothing.
C22_AddFundsEffect ==
    [][\A c \in Currencies, a \in FundAmounts :
          addFunds(c, a)
          => LET w == IF \E v \in DOMAIN wallets :
                            wallets[v].currency = c /\ wallets[v].isActive
                        THEN CHOOSE v \in DOMAIN wallets :
                                wallets[v].currency = c /\ wallets[v].isActive
                        ELSE 0
             IN IF a > 0 /\ w # 0
                  THEN /\ wallets' = [wallets EXCEPT
                              ![w].balance = @ + a,
                              ![w].availableBalance = @ + a]
                       /\ wallets'[w].reservedBalance = wallets[w].reservedBalance
                       /\ Len(transactions') = Len(transactions) + 1
                       /\ SubSeq(transactions', 1, Len(transactions)) = transactions
                       /\ transactions'[Len(transactions')].type = "DEPOSIT"
                       /\ transactions'[Len(transactions')].status = "COMPLETED"
                       /\ transactions'[Len(transactions')].amount = a
                       /\ transactions'[Len(transactions')].walletId = w
                  ELSE /\ wallets' = wallets
                       /\ transactions' = transactions
                       /\ statusHistory' = statusHistory]_vars

\* C22 witness: a wallet that was opened later has been funded with 100.00,
\* after requests for a missing wallet and for amount 0 left nothing behind.
C22_Witness ==
    /\ Len(transactions) = 1
    /\ transactions[1].type = "DEPOSIT"
    /\ transactions[1].status = "COMPLETED"
    /\ transactions[1].amount = 10000
    /\ wallets[transactions[1].walletId].currency = "USDC"
    /\ wallets[transactions[1].walletId].balance = 10000
    /\ wallets[transactions[1].walletId].availableBalance = 10000
    /\ wallets[transactions[1].walletId].reservedBalance = 0

\* C23: no two wallet rows share a (user, currency) pair.
C23_OneWalletPerCurrency ==
    \A v, w \in DOMAIN wallets :
        (wallets[v].userId = wallets[w].userId /\ wallets[v].currency = wallets[w].currency)
        => v = w

\* C23 witness: two requests raced to open the USDC wallet, an onramp request
\* among them; one insert was refused and the table holds one USDC wallet.
C23_Witness ==
    /\ lastResponse = 500
    /\ \A p \in Procs : walletRequest[p].pc = "idle"
    /\ \E t \in DOMAIN onrampTransactions :
          /\ onrampTransactions[t].status = "PENDING"
          /\ onrampStatusHistory[t] = <<"PENDING">>
    /\ Cardinality({w \in DOMAIN wallets : wallets[w].currency = "USDC"}) = 1

\* C24: getExchangeRate never raises and returns a positive rate whatever
\* the cache holds, whether the cache read throws and whatever the provider
\* answers; for from = to it returns exactly 1 and consults neither.
C24_RateAlwaysUsable ==
    [][\A f \in Currencies, t \in Currencies, cacheOk \in BOOLEAN,
          fetched \in FetchOutcomes :
          getExchangeRate(f, t, cacheOk, fetched)
          => /\ ~quote'.raised
             /\ quote'.rate > 0
             /\ f = t => (quote'.rate = 100 /\ quote'.consulted = {})]_vars

\* C24 witness: with the cache empty and the provider listing only one side
\* of the pair, getExchangeRate asked both and answered with its default 1.
C24_Witness ==
    /\ quote.fn = "getExchangeRate"
    /\ quote.fromCurrency = "USDC"
    /\ quote.toCurrency = "EUR"
    /\ quote.consulted = {"cache", "provider"}
    /\ quote.rate = 100
    /\ exchangeRates = {}

\* C25: when the cache has no fresh row for a pair of different currencies,
\* getExchangeRate asks the provider and caches what it is given; when the
\* provider fails as well, it answers with the fallback table's rate.
C25_MissFetchesAndCaches ==
    [][\A f \in Currencies, t \in Currencies, fetched \in FetchOutcomes :
          (/\ f # t
           /\ getCachedRates(f)[t] = 0
           /\ getExchangeRate(f, t, TRUE, fetched))
          => /\ "provider" \in quote'.consulted
             /\ IF fetched.ok
                  THEN \A c \in SupportedCurrencies :
                          fetched.rates[c] # 0 => getCachedRates("USD")'[c] = fetched.rates[c]
                  ELSE quote'.rate = rateOf(getFallbackRates, f, t)]_vars

C27_WidgetModeFallback ==
    [][(webhookResponse' = webhookResponse)
       => \A c \in SupportedCurrencies, a \in OnrampAmounts, circleOk \in BOOLEAN :
             (findWallet(UserId, c) # 0
              /\ createOnrampTransfer(1, c, a, "widget", circleOk))
             => LET id == Len(onrampTransactions) + 1
                IN /\ lastResponse' = 201
                   /\ Len(onrampTransactions') = id
                   /\ onrampTransactions'[id].status = "PENDING"
                   /\ onrampTransactions'[id].circleTransferId = id
                   /\ onrampStatusHistory'[id] = <<"PENDING", "PROCESSING">>
                   /\ onrampMetadata'[id][2].sessionId = id
                   /\ onrampMetadata'[id][2].error = NULL
                   /\ onrampMetadata'[id][2].checkoutUrl =
                         [origin |-> "https://app.rampnow.io/order/quote",
                          srcAmount |-> a + a \div 100,
                          walletAddress |-> CHOOSE w \in DOMAIN wallets' :
                                               wallets'[w].currency = "USDC",
                          externalOrderId |-> id]]_vars

\* C27 witness: a production deployment answered 201 with the widget URL.
C27_Witness ==
    /\ env.NODE_ENV = "production"
    /\ lastResponse = 201
    /\ \E t \in DOMAIN onrampTransactions :
          /\ onrampTransactions[t].status = "PENDING"
          /\ onrampTransactions[t].circleTransferId = t
          /\ onrampStatusHistory[t] = <<"PENDING", "PROCESSING">>
          /\ onrampMetadata[t][2].checkoutUrl.origin = "https://app.rampnow.io/order/quote"

\* C28: outside development, when rampnow.createOnrampSession fails with
\* anything but order_mode_not_allowed, an accepted createOnrampTransfer request
\* answers 500, leaves the onramp row FAILED with a FAILED history row whose
\* metadata holds the message of the error that was thrown, and changes no
\* wallet's balances (the USDC wallet it may have opened is empty).
C28_SessionFailureRecorded ==
    [][(webhookResponse' = webhookResponse /\ env.NODE_ENV # "development")
       => \A c \in SupportedCurrencies, a \in OnrampAmounts, circleOk \in BOOLEAN,
             outcome \in {"error", "unauthorized"} :
             (findWallet(UserId, c) # 0
              /\ createOnrampTransfer(1, c, a, outcome, circleOk))
             => LET id == Len(onrampTransactions) + 1
                IN /\ lastResponse' = 500
                   /\ Len(onrampTransactions') = id
                   /\ onrampTransactions'[id].status = "FAILED"
                   /\ onrampTransactions'[id].circleTransferId = 0
                   /\ onrampStatusHistory'[id] = <<"PENDING", "FAILED">>
                   /\ onrampMetadata'[id][2].error =
                         (IF outcome = "error" THEN "Rampnow validation error"
                          ELSE "Rampnow authentication failed")
                   /\ \A w \in DOMAIN wallets : wallets'[w] = wallets[w]
                   /\ \A w \in DOMAIN wallets' \ DOMAIN wallets :
                         /\ wallets'[w].balance = 0
                         /\ wallets'[w].availableBalance = 0
                         /\ wallets'[w].reservedBalance = 0]_vars

\* C28 witness: a production deployment answered 500 after the provider refused
\* the API key, and the FAILED row says so.
C28_Witness ==
    /\ env.NODE_ENV = "production"
    /\ lastResponse = 500
    /\ \E t \in DOMAIN onrampTransactions :
          /\ onrampTransactions[t].status = "FAILED"
          /\ onrampStatusHistory[t] = <<"PENDING", "FAILED">>
          /\ onrampMetadata[t][2].error = "Rampnow authentication failed"

\* C30: a createOnrampTransfer request whose bank account is not an active,
\* verified account of the caller is answered 400 and writes no onramp row, no
\* history row and no wallet; every onramp row has come from a request that
\* named such an account.
C30_BankAccountGate ==
    [][(webhookResponse' = webhookResponse)
       => \A b \in BankAccountIds, c \in SupportedCurrencies, a \in OnrampAmounts,
             outcome \in SessionOutcomes, circleOk \in BOOLEAN :
             createOnrampTransfer(b, c, a, outcome, circleOk)
             => \/ /\ b \in DOMAIN bankAccounts
                   /\ bankAccounts[b].userId = UserId
                   /\ bankAccounts[b].isActive
                   /\ bankAccounts[b].isVerified
                \/ /\ lastResponse' = 400
                   /\ onrampTransactions' = onrampTransactions
                   /\ onrampStatusHistory' = onrampStatusHistory
                   /\ onrampMetadata' = onrampMetadata
                   /\ wallets' = wallets]_vars

\* C30 witness: a request was turned away and the onramp tables are empty.
C30_Witness ==
    /\ lastResponse = 400
    /\ onrampTransactions = << >>
    /\ onrampStatusHistory = << >>
    /\ Len(wallets) = 1

C31_BridgeIsPure ==
    [][bridge' # bridge
       => /\ wallets' = wallets
          /\ transactions' = transactions
          /\ statusHistory' = statusHistory
          /\ onrampTransactions' = onrampTransactions
          /\ onrampStatusHistory' = onrampStatusHistory
          /\ exchangeRates' = exchangeRates
          /\ users' = users
          /\ bridge'.fn = "processBridgeTransfer"
             => \E cacheOk \in BOOLEAN, fetched \in FetchOutcomes :
                   LET usdc == (bridge'.fromAmount
                                 * exchangeRate(bridge'.fromCurrency, "USD",
                                                cacheOk, fetched)) \div 100
                   IN /\ bridge'.usdcAmount = usdc
                      /\ \E cacheOk2 \in BOOLEAN, fetched2 \in FetchOutcomes :
                            bridge'.toAmount =
                               (usdc * exchangeRate("USD", bridge'.toCurrency,
                                                    cacheOk2, fetched2)) \div 100]_vars

\* C31 witness: 100.00 EUR went through the bridge while the provider quoted
\* 0.92 EUR per USD: 108.00 USDC (1 / 0.92 kept as 1.08), then 108.00 USD.
C31_Witness ==
    /\ bridge.fn = "processBridgeTransfer"
    /\ bridge.fromCurrency = "EUR"
    /\ bridge.toCurrency = "USD"
    /\ bridge.fromAmount = 10000
    /\ bridge.usdcAmount = 10800
    /\ bridge.toAmount = 10800

C33_TransfersSettle ==
    \A t \in 1..MaxTx :
       (t \in DOMAIN transactions /\ transactions[t].type = "TRANSFER_SEND")
       ~> (t \in DOMAIN transactions
           /\ transactions[t].status \in {"COMPLETED", "FAILED"})

\* C34: a transaction has completedAt set exactly when its status is COMPLETED.
C34_CompletedAtIffCompleted ==
    \A t \in DOMAIN transactions :
       transactions[t].completedAt <=> transactions[t].status = "COMPLETED"

\* C35: no request of user u1 (createTransfer, addFunds, addCurrencyWallet,
\* updateTransactionStatus, createOnrampTransfer) changes a wallet, a
\* transaction or its history, or an onramp transaction or its history, that
\* belongs to another user.
C35_OwnRowsOnly ==
    [][/\ \A w \in DOMAIN wallets :
             wallets[w].userId # UserId => wallets'[w] = wallets[w]
       /\ \A t \in DOMAIN transactions :
             transactions[t].userId # UserId
             => /\ transactions'[t] = transactions[t]
                /\ statusHistory'[t] = statusHistory[t]
       /\ \A t \in DOMAIN onrampTransactions :
             onrampTransactions[t].userId # UserId
             => /\ onrampTransactions'[t] = onrampTransactions[t]
                /\ onrampStatusHistory'[t] = onrampStatusHistory[t]
                /\ onrampMetadata'[t] = onrampMetadata[t]]_vars

\* C35 witness: u1 has added funds, sent a transfer and got an onramp session
\* next to the other user's rows, which are as they were.
C35_Witness ==
    /\ wallets[1].userId = "u2"
    /\ wallets[1].balance = 10000
    /\ wallets[1].reservedBalance = 5075
    /\ transactions[1].userId = "u2"
    /\ transactions[1].status = "PENDING"
    /\ \E t \in DOMAIN transactions :
          transactions[t].userId = UserId /\ transactions[t].type = "TRANSFER_SEND"
    /\ \E t \in DOMAIN onrampTransactions :
          onrampTransactions[t].userId = UserId
          /\ onrampTransactions[t].circleTransferId # 0

\* C36: once every setPrimaryBankAccount request has been answered, no user
\* has two bank accounts with isPrimary set; and the request of a user leaves
\* the isPrimary of every other user's account as it was.
C36_OnePrimaryPerUser ==
    [][/\ (\A p \in Procs : primaryRequest'[p].pc = "idle")
          => \A u \in AccountHolders :
                Cardinality({b \in DOMAIN bankAccounts :
                                bankAccounts[b].userId = u /\ isPrimary'[b]}) <= 1
       /\ \A p \in Procs :
             primaryRequest'[p] # primaryRequest[p]
             => LET caller == IF primaryRequest[p].pc = "idle"
                                THEN primaryRequest'[p].userId
                                ELSE primaryRequest[p].userId
                IN \A b \in DOMAIN bankAccounts :
                      bankAccounts[b].userId # caller => isPrimary'[b] = isPrimary[b]]_vars

====
